---- MODULE Spec2Model ----
(***************************************************************************)
(* A model of asset-fuse's prefetch/materialization engine:                *)
(*   - the integrity model and the checksum cache     (package integrity)  *)
(*   - the prefetcher and its tiers                   (package prefetcher) *)
(*   - the direct downloader                          (package downloader) *)
(*   - the local CAS writers                          (package cas)        *)
(*   - the remote byte-stream reader and the streaming file handle         *)
(*                                                    (packages cas,handle)*)
(*                                                                         *)
(* Blob contents are identified by a blob number b \in Blobs.  A hash      *)
(* function is collision free on Blobs: the hash of blob b under algorithm *)
(* alg is the token HashOf(alg, b).  Byte level models (the stream reader  *)
(* and the file handle) name the byte at offset i of the blob by i itself, *)
(* so that a byte delivered at the wrong position is visible.              *)
(***************************************************************************)
EXTENDS Integers, Sequences, FiniteSets, TLC

VARIABLES
    \* ---- configuration, fixed by Init
    digestFunction,   \* Prefetcher.digestFunction: the primary algorithm
    remoteConfigured, \* remoteCAS != nil and remoteAsset != nil (mount wiring)
    asset,            \* the api.Asset the operations are called with
    digestHashAttributeName, \* root.digestHashAttributeName: the digest xattr name
    seed,             \* ChecksumCache.seed: the keys that maphash makes collide
    \* ---- the calls in flight
    goroutines,       \* the goroutines that run a call of a node or the prefetcher
    \* ---- prefetcher and its tiers
    cache,            \* ChecksumCache: (hash, identifier) -> Digest
    localCAS,         \* final blob paths of the Disk CAS: hash -> content
    remoteCAS,        \* set of blobs the remote CAS holds
    last,             \* outcome of the last prefetcher / downloader call
    nSteps,           \* number of steps taken by SpecPrefetch
    \* ---- checksum cache history (SpecCache)
    firstLearned,     \* key -> the digest first stored under it
    lastWrites,       \* the <<key, digest>> pairs written by the last step
    lastPut,          \* the last PutIntegrity call: integrity and digest
    nWrites,          \* number of cache writing steps so far
    manifestLeafs,    \* ManifestWatcher.manifestTree.Leafs
    \* ---- local Disk CAS writers (SpecDisk)
    staging,          \* the open staging files: digest and bytes written
    \* ---- remote byte streams and the streaming file handle (SpecStream)
    streams,          \* the byte streams opened at the remote CAS, in order
    handle,           \* streamingFileHandle and its byteStreamReadSeekCloser
    lastRead,         \* outcome of the last read, transfer or close
    \* ---- manifest watcher and the root directory (SpecWatcher)
    manifestFile,     \* the manifest file: its content and mtime
    watcher,          \* ManifestWatcher: manifestDigest, manifestMtime, manifestTree
    fsRoot,           \* root: dirent.manifestNode and mtime
    kernel,           \* notifications sent to the kernel, outcome of the last reload
    request,          \* the Readdir or Lookup call of a FUSE request in flight
    \* ---- the prefetcher's work queue (SpecQueue)
    queue             \* workQueue: channel, wait group, once, and its goroutines

\* what only Init and the work queue's own steps set
confVars == <<digestFunction, remoteConfigured, asset, digestHashAttributeName, queue, seed>>
\* and what only the steps of a call in flight change
cfgVars == <<confVars, goroutines>>
prefVars == <<cache, localCAS, remoteCAS, last, nSteps>>
histVars == <<firstLearned, lastWrites, lastPut, nWrites, manifestLeafs>>
diskVars == <<staging>>
streamVars == <<streams, handle, lastRead>>
watchVars == <<manifestFile, watcher, fsRoot, kernel, request>>
vars == <<cfgVars, prefVars, histVars, diskVars, streamVars, watchVars>>

\* a behaviour without a mounted filesystem and without a work queue: no
\* manifest is watched
NoWatcher ==
    /\ queue = [kind |-> "none"]
    /\ manifestFile = [kind |-> "none"]
    /\ watcher = [kind |-> "none"]
    /\ fsRoot = [kind |-> "none"]
    /\ kernel = [kind |-> "none"]
    /\ request = [pc |-> "none"]

-----------------------------------------------------------------------------
(* Bounds of the model *)

\* number of distinct blob contents
NBlobs == 3
\* size in bytes of a small blob (blob 1)
SmallSize == 12
\* number of cache writing steps explored by SpecCache
MaxWrites == 2
\* number of steps (calls and changes of the remote CAS) explored by SpecPrefetch
MaxSteps == 2

\* byteStreamThreshold: from this size on a blob is streamed (1 MiB)
byteStreamThreshold == 1048576

Blobs == 1..NBlobs

\* the element of a singleton set; Only({e(x) : x \in {v}}) computes v once
\* and names it x in e, as a call's result bound to a local
Only(S) == CHOOSE x \in S : TRUE

\* two more blobs, for batches: one of half the streaming threshold, one that
\* together with blob 1 has exactly the streaming threshold size
HalfBlob == NBlobs + 1
NearBlob == NBlobs + 2

\* Blob 1 is small; every other blob of Blobs has exactly the streaming
\* threshold size, so that a large blob has wrong contents of its own length.
SizeOf(b) ==
    IF b = 1 THEN SmallSize
    ELSE IF b = HalfBlob THEN byteStreamThreshold \div 2
    ELSE IF b = NearBlob THEN byteStreamThreshold - SmallSize
    ELSE byteStreamThreshold

-----------------------------------------------------------------------------
(* package integrity: algorithms, checksums, integrity, digests *)

\* the zero value Algorithm{}
NoAlgorithm == "none"

\* an attribute name is a record of prefix, "user." if the name starts with
\* it and "" otherwise, and rest, what follows the prefix; the empty name
NoAttributeName == [prefix |-> "", rest |-> ""]

\* KnownAlgorithms
Algorithms == {"sha256", "sha384", "sha512", "blake3"}

\* the order in which Integrity.Items yields the checksums
ItemsOrder == <<"sha256", "sha384", "sha512", "blake3">>

\* Algorithm.Identifier: the byte that tags a cache key with its algorithm
Identifier(alg) ==
    CASE alg = "sha256" -> 1
      [] alg = "sha384" -> 2
      [] alg = "sha512" -> 3
      [] alg = "blake3" -> 4

\* Algorithm.Hasher applied to the contents of blob b: collision free tokens
HashOf(alg, b) == Identifier(alg) * 100 + b

\* a nil hash slice (len(hash) == 0): the checksum is absent
NilHash == 0 - 1
\* the all-zero hash buffer of Digest{}
ZeroHash == 1 - 1

\* Digest{}: the uninitialized digest
UninitDigest == [hash |-> ZeroHash, size |-> 0]

\* Algorithm.SizeBytes: the length of a hash in bytes
AlgorithmSizeBytes(alg) ==
    CASE alg = "sha256" -> 32
      [] alg = "sha384" -> 48
      [] alg = "sha512" -> 64
      [] alg = "blake3" -> 32

\* the length in bytes of a hash token: that of the algorithm which made it,
\* and no byte for a nil slice
HashLen(hash) ==
    IF hash \div 100 \in {Identifier(alg) : alg \in Algorithms}
    THEN AlgorithmSizeBytes(CHOOSE alg \in Algorithms : Identifier(alg) = hash \div 100)
    ELSE 0

\* what a call that panicked leaves in place of a hash
PanicHash == 0 - 2

\* the digest of a NewDigest that panicked
PanicDigest == [hash |-> PanicHash, size |-> 0 - 1]

\* NewDigest(hash, sizeBytes, algorithm): panics when the length of the hash
\* is not the algorithm's
NewDigest(hash, sizeBytes, algorithm) ==
    IF algorithm \notin Algorithms \/ HashLen(hash) # AlgorithmSizeBytes(algorithm)
    THEN PanicDigest
    ELSE [hash |-> hash, size |-> sizeBytes]

\* Digest.Uninitialized
Uninitialized(d) == d.size = 0 /\ d.hash = ZeroHash

\* an Equals that compares the values only
DigestEqualsByValue(d, other) ==
    d.size = other.size /\ d.hash = other.hash

\* Digest.Equals
DigestEquals(d, other) ==
    IF Uninitialized(d) \/ Uninitialized(other) THEN FALSE
    ELSE IF d.size # other.size THEN FALSE
    ELSE d.hash = other.hash

\* the true digest of blob b under algorithm alg (Algorithm.CalculateDigest)
DigestOfBlob(alg, b) == NewDigest(HashOf(alg, b), SizeOf(b), alg)

\* An Integrity is a function from Algorithms to a hash, NilHash when absent.
EmptyIntegrity == [a \in Algorithms |-> NilHash]

\* Integrity.Empty
IntegrityEmpty(i) == \A a \in Algorithms : i[a] = NilHash

\* Integrity.ChecksumForAlgorithm: the checksum and whether it is present
ChecksumForAlgorithm(i, alg) ==
    [checksum |-> [algorithm |-> alg, hash |-> i[alg]], ok |-> i[alg] # NilHash]

\* Integrity.Items: the present checksums, in the order sha256, sha384,
\* sha512, blake3
RECURSIVE ItemsFrom(_, _)
ItemsFrom(i, n) ==
    IF n > Len(ItemsOrder) THEN <<>>
    ELSE LET c == ChecksumForAlgorithm(i, ItemsOrder[n])
         IN  (IF c.ok THEN <<c.checksum>> ELSE <<>>) \o ItemsFrom(i, n + 1)

Items(i) == ItemsFrom(i, 1)

\* the integrity of blob b that carries the checksums of the algorithms algs
IntegrityOf(b, algs) ==
    [a \in Algorithms |-> IF a \in algs THEN HashOf(a, b) ELSE NilHash]

\* the integrity that carries only i's checksum for alg
JustAlgorithm(i, alg) ==
    [a \in Algorithms |-> IF a = alg THEN i[a] ELSE NilHash]

\* Integrity.Equivalent: sha256 and sha384 count when both sides have the
\* checksum and fail when the hashes differ; sha512 and blake3 are looked at
\* only when both sides have the checksum and the hashes differ
Equivalent(i, other) ==
    LET both(a) == i[a] # NilHash /\ other[a] # NilHash
        counted(a) ==
            IF a \in {"sha256", "sha384"} THEN both(a)
            ELSE both(a) /\ i[a] # other[a]
        matchingChecksums == Cardinality({a \in Algorithms : counted(a)})
    IN  IF IntegrityEmpty(i) \/ IntegrityEmpty(other) THEN FALSE
        ELSE IF \E a \in Algorithms : counted(a) /\ i[a] # other[a] THEN FALSE
        ELSE matchingChecksums > 0

-----------------------------------------------------------------------------
(* package integrity: the checksum cache *)

\* NewCache: no entries
EmptyCache == [k \in {} |-> UninitDigest]

\* maphash.MakeSeed: a seed is modelled by what it makes collide, the set of
\* the (hash, identifier) pairs that have the same 64 bit sum and whose hashes
\* begin with the same byte (the shard); no pair of NoCollision does
NoCollision == {}

\* the key of an entry: the shard of the hash and the sum of the hash and the
\* algorithm identifier under the cache's seed.  Pairs that do not collide
\* are told apart by the pair itself, the pairs that collide share one key.
CacheKey(hash, identifier) ==
    IF <<hash, identifier>> \in seed
    THEN CHOOSE k \in seed :
            \A j \in seed : k[1] < j[1] \/ (k[1] = j[1] /\ k[2] <= j[2])
    ELSE <<hash, identifier>>

\* a GetSlice that finds the hash under any identifier
GetSliceAnyIdentifier(c, hash, identifier) ==
    IF hash = NilHash THEN [digest |-> UninitDigest, ok |-> FALSE]
    ELSE IF \E k \in DOMAIN c : k[1] = hash
         THEN [digest |-> c[CHOOSE k \in DOMAIN c : k[1] = hash], ok |-> TRUE]
         ELSE [digest |-> UninitDigest, ok |-> FALSE]

\* ChecksumCache.GetSlice
GetSlice(c, hash, identifier) ==
    IF hash = NilHash THEN [digest |-> UninitDigest, ok |-> FALSE]
    ELSE IF CacheKey(hash, identifier) \in DOMAIN c
         THEN [digest |-> c[CacheKey(hash, identifier)], ok |-> TRUE]
         ELSE [digest |-> UninitDigest, ok |-> FALSE]

\* a PutSlice that replaces the map by the single new entry
PutSliceDropping(c, hash, identifier, digest) ==
    IF hash = NilHash THEN c
    ELSE [k \in {CacheKey(hash, identifier)} |-> digest]

\* ChecksumCache.PutSlice
PutSlice(c, hash, identifier, digest) ==
    IF hash = NilHash THEN c
    ELSE [k \in DOMAIN c \cup {CacheKey(hash, identifier)} |->
            IF k = CacheKey(hash, identifier) THEN digest ELSE c[k]]

\* ChecksumCache.FromIntegrity: the first hit in Items order
RECURSIVE FromItems(_, _, _)
FromItems(c, items, n) ==
    IF n > Len(items) THEN [digest |-> UninitDigest, ok |-> FALSE]
    ELSE LET r == GetSlice(c, items[n].hash, Identifier(items[n].algorithm))
         IN  IF r.ok THEN r ELSE FromItems(c, items, n + 1)

FromIntegrity(c, i) == FromItems(c, Items(i), 1)

\* ChecksumCache.FromChecksum
FromChecksum(c, checksum) ==
    GetSlice(c, checksum.hash, Identifier(checksum.algorithm))

\* a PutSlice that stores a digest built from the checksum's own hash (the
\* digest is then not the digest of the call)
PutSliceOfChecksum(c, hash, identifier, digest) ==
    PutSlice(c, hash, identifier,
             [digest EXCEPT !.hash = IF hash = NilHash THEN @ ELSE hash])

\* the PutSlice of the loop of ChecksumCache.PutIntegrity
PutIntegrityPutSlice(c, hash, identifier, digest) ==
    PutSlice(c, hash, identifier, digest)

RECURSIVE PutItems(_, _, _, _)
PutItems(c, items, n, digest) ==
    IF n > Len(items) THEN c
    ELSE PutItems(PutIntegrityPutSlice(c, items[n].hash, Identifier(items[n].algorithm),
                                       digest),
                  items, n + 1, digest)

\* ChecksumCache.PutIntegrity: one entry per checksum of the integrity
PutIntegrity(c, i, digest) == PutItems(c, Items(i), 1, digest)

\* the <<key, digest>> pairs a PutIntegrity(i, digest) writes
WritesOf(i, digest) ==
    {<<CacheKey(i[a], Identifier(a)), digest>> : a \in {x \in Algorithms : i[x] # NilHash}}

-----------------------------------------------------------------------------
(* package watcher: priming the cache from the leaves of a manifest *)

\* the body of the priming loop of watcher.New and of
\* updateFilesystemTreeOnChange: leaves with a primary checksum and a size
\* hint put their integrity with the digest built from both
PrimeLeaf(c, leaf) ==
    LET r == ChecksumForAlgorithm(leaf.integrity, digestFunction)
    IN  IF r.ok /\ leaf.sizeHint >= 0
        THEN PutIntegrity(c, leaf.integrity, NewDigest(r.checksum.hash, leaf.sizeHint, digestFunction))
        ELSE c

RECURSIVE PrimeLeafs(_, _, _)
PrimeLeafs(c, leafs, n) ==
    IF n > Len(leafs) THEN c
    ELSE PrimeLeafs(PrimeLeaf(c, leafs[n]), leafs, n + 1)

-----------------------------------------------------------------------------
(* package cas: the local Disk CAS *)

\* File contents are a blob number, or Garbage for a partial or damaged write.
Garbage == 1 - 1

\* no error
OK == "ok"

\* no streaming file handle is open; nothing was read
NoHandle == [open |-> FALSE]
NoRead == [op |-> "none"]

\* the local CAS directory: final blob path -> the file found there and the
\* size of the digest it was stored for
EmptyDisk == [h \in {} |-> [content |-> Garbage, size |-> 0]]

\* Disk.blobPath: <root>/<algorithm>/cas/<hh>/<hex>; one digest function is
\* in use, so the path is determined by the hash
blobPath(hash) == hash

\* the directory after a rename of a file with these contents to path
Renamed(local, path, content, size) ==
    [h \in DOMAIN local \cup {path} |->
        IF h = path THEN [content |-> content, size |-> size] ELSE local[h]]

\* the directory after os.Remove(path)
Removed(local, path) == [h \in DOMAIN local \ {path} |-> local[h]]

\* Disk.FindMissingBlobs for one digest: the digests that have no file
DiskFindMissingBlobs(local, digest) ==
    IF blobPath(digest.hash) \in DOMAIN local THEN {} ELSE {digest}

\* Digest.CheckContent: the contents hash to the digest's hash and have the
\* digest's size
CheckContent(digest, content, alg) ==
    /\ content # Garbage
    /\ HashOf(alg, content) = digest.hash
    /\ SizeOf(content) = digest.size

\* a blobFinalizer.Close that renames without validating
blobFinalizerCloseUnchecked(local, content, digest, alg, renameOK) ==
    IF ~renameOK THEN [err |-> "rename", local |-> local]
    ELSE [err |-> OK, local |-> Renamed(local, blobPath(digest.hash), content, digest.size)]

\* blobFinalizer.Close: validate the staging file, rename it to the final
\* path; the staging file is removed on every path
blobFinalizerClose(local, content, digest, alg, renameOK) ==
    IF ~CheckContent(digest, content, alg) THEN [err |-> "validation", local |-> local]
    ELSE IF ~renameOK THEN [err |-> "rename", local |-> local]
    ELSE [err |-> OK, local |-> Renamed(local, blobPath(digest.hash), content, digest.size)]

\* Disk.BatchUpdateBlobs for one item: stage, write, close; a failed close
\* makes the batch fail
DiskBatchUpdateBlobs(local, digest, data, alg) ==
    blobFinalizerClose(local, data, digest, alg, TRUE)

\* hardlinkOrCopy: link a source file to the target, or copy the source to a
\* temporary file next to the target and rename it; on error the target is
\* removed.  io tells whether the source is a file, whether linking is
\* possible and whether the copy succeeds.
hardlinkOrCopy(local, data, target, io) ==
    IF io.isFile /\ io.linkOK /\ target \notin DOMAIN local
    THEN [err |-> OK, local |-> Renamed(local, target, data, SizeOf(data)), fileSize |-> SizeOf(data)]
    ELSE IF io.copyOK
    THEN [err |-> OK, local |-> Renamed(local, target, data, SizeOf(data)), fileSize |-> SizeOf(data)]
    ELSE [err |-> "io", local |-> Removed(local, target), fileSize |-> 0]

\* Disk.ImportBlob
ImportBlob(local, prevalidatedIntegrity, optionalDigest, alg, data, io) ==
    LET knownHash ==
            IF ~Uninitialized(optionalDigest) THEN optionalDigest.hash
            ELSE prevalidatedIntegrity[alg]
    IN  IF Uninitialized(optionalDigest) /\ prevalidatedIntegrity[alg] = NilHash
        THEN [err |-> "panic", digest |-> UninitDigest, local |-> local]
        ELSE LET r == hardlinkOrCopy(local, data, blobPath(knownHash), io)
             IN  IF r.err # OK
                 THEN [err |-> r.err, digest |-> UninitDigest, local |-> r.local]
                 ELSE [err |-> OK, digest |-> NewDigest(knownHash, r.fileSize, alg), local |-> r.local]

\* a healthy file system: the source is a buffer and the copy succeeds
HealthyIO == [isFile |-> FALSE, linkOK |-> FALSE, copyOK |-> TRUE]

\* the staging directory after os.Remove of its i-th file
RemoveStaging(stg, i) ==
    [j \in 1..(Len(stg) - 1) |-> IF j < i THEN stg[j] ELSE stg[j + 1]]

\* the file system below one write: whether os.CreateTemp succeeds, the
\* error of Write ("nil", a permission error, another error such as a
\* cancelled copy), whether the staging file can be opened for validation
\* and whether the rename succeeds
HealthyStaging == [createOK |-> TRUE, write |-> "nil", openOK |-> TRUE, renameOK |-> TRUE]

StagingIOs ==
    {HealthyStaging,
     [HealthyStaging EXCEPT !.createOK = FALSE],
     [HealthyStaging EXCEPT !.write = "permission"],
     [HealthyStaging EXCEPT !.write = "io"],
     [HealthyStaging EXCEPT !.openOK = FALSE],
     [HealthyStaging EXCEPT !.renameOK = FALSE]}

\* Disk.stagingFile: os.CreateTemp makes a new, empty file in the staging
\* directory
stagingFile(stg, digest, io) ==
    IF ~io.createOK THEN [err |-> "create", staging |-> stg]
    ELSE [err |-> OK, staging |-> Append(stg, [digest |-> digest, content |-> Garbage])]

\* a Close without the deferred os.Remove: the staging file goes away only
\* when it is renamed
blobFinalizerCloseFileKeepingFailures(stg, i, local, alg, io) ==
    Only({
        [err |-> r.err, local |-> r.local,
         staging |-> IF r.err = OK THEN RemoveStaging(stg, i) ELSE stg]
        : r \in {IF ~io.openOK THEN [err |-> "open", local |-> local]
                 ELSE blobFinalizerClose(local, stg[i].content, stg[i].digest, alg,
                                         io.renameOK)}})

\* blobFinalizer.Close on the i-th staging file: the file is closed, opened
\* again and validated, and renamed to the final path; the deferred
\* os.Remove(b.stagingPath) runs on every path
blobFinalizerCloseFile(stg, i, local, alg, io) ==
    Only({
        [err |-> r.err, local |-> r.local, staging |-> RemoveStaging(stg, i)]
        : r \in {IF ~io.openOK THEN [err |-> "open", local |-> local]
                 ELSE blobFinalizerClose(local, stg[i].content, stg[i].digest, alg,
                                         io.renameOK)}})

\* the staging directory after Write on its newest file: the data, or part
\* of it when the write fails
Written(stg, data, io) ==
    [stg EXCEPT ![Len(stg)].content = IF io.write = "nil" THEN data ELSE Garbage]

-----------------------------------------------------------------------------
(* package downloader *)

\* maxInMemoryDownloadSize (64 MiB)
maxInMemoryDownloadSize == 67108864

\* An HTTP response is a record of: ok (the client delivered a response),
\* status, contentLength (-1 when absent), readOK (the body could be read to
\* its end) and body (the blob that was read, n = SizeOf(body) bytes).

\* The expected checksums of the integrity that the body does not match.
ChecksumValidationErrors(expectedContent, body) ==
    {a \in Algorithms : expectedContent[a] # NilHash /\ expectedContent[a] # HashOf(a, body)}

\* a downloadBlobFromURI that imports without looking at the hashers
downloadBlobFromURIUnvalidated(local, resp, expectedContent, alg, io) ==
    LET n == SizeOf(resp.body)
        canDownloadInMemory ==
            resp.contentLength >= 0 /\ resp.contentLength <= maxInMemoryDownloadSize
        knownDigest == NewDigest(HashOf(alg, resp.body), n, alg)
        failed(e, algs) ==
            [err |-> e, algorithms |-> algs, digest |-> UninitDigest, local |-> local]
    IN  IF IntegrityEmpty(expectedContent) THEN failed("no digests to validate", {})
        ELSE IF ~resp.ok THEN failed("http", {})
        ELSE IF resp.status # 200 THEN failed("unexpected status code", {})
        ELSE IF ~resp.readOK THEN failed("body", {})
        ELSE IF resp.contentLength >= 0 /\ n # resp.contentLength
        THEN failed("unexpected content length", {})
        ELSE LET imported == ImportBlob(local, expectedContent, knownDigest, alg, resp.body,
                                        [io EXCEPT !.isFile = ~canDownloadInMemory])
             IN  [err |-> imported.err, algorithms |-> {}, digest |-> imported.digest,
                  local |-> imported.local]

\* Downloader.downloadBlobFromURI: the error, the algorithms the error names,
\* the digest and the local CAS
downloadBlobFromURI(local, resp, expectedContent, alg, io) ==
    LET n == SizeOf(resp.body)
        canDownloadInMemory ==
            resp.contentLength >= 0 /\ resp.contentLength <= maxInMemoryDownloadSize
        invalid == ChecksumValidationErrors(expectedContent, resp.body)
        knownDigest == NewDigest(HashOf(alg, resp.body), n, alg)
        failed(e, algs) ==
            [err |-> e, algorithms |-> algs, digest |-> UninitDigest, local |-> local]
    IN  IF IntegrityEmpty(expectedContent) THEN failed("no digests to validate", {})
        ELSE IF ~resp.ok THEN failed("http", {})
        ELSE IF resp.status # 200 THEN failed("unexpected status code", {})
        ELSE IF ~resp.readOK THEN failed("body", {})
        ELSE IF resp.contentLength >= 0 /\ n # resp.contentLength
        THEN failed("unexpected content length", {})
        ELSE IF invalid # {} THEN failed("invalid checksum", invalid)
        ELSE LET imported == ImportBlob(local, expectedContent, knownDigest, alg, resp.body,
                                        [io EXCEPT !.isFile = ~canDownloadInMemory])
             IN  [err |-> imported.err, algorithms |-> {}, digest |-> imported.digest,
                  local |-> imported.local]

\* what FetchBlob returns for its digest, the URI used and the issues
FetchBlobReturns(digest, uriUsed, uriIssues) ==
    [done |-> TRUE, digest |-> digest, uriUsed |-> uriUsed, uriIssues |-> uriIssues,
     err |-> IF Uninitialized(digest) THEN "unable to download asset from any uri" ELSE OK]

\* an iteration that gives up when a URI fails
FetchBlobTriesURINoFallback(r, i, n, uriIssues) ==
    IF r.err = OK THEN FetchBlobReturns(r.digest, IF Uninitialized(r.digest) THEN 0 ELSE i,
                                        uriIssues)
    ELSE FetchBlobReturns(UninitDigest, 0,
                          Append(uriIssues, [err |-> r.err, algorithms |-> r.algorithms]))

\* one iteration of the loop of Downloader.FetchBlob over the n URIs of the
\* asset, and its return after the loop: r is what downloadBlobFromURI
\* returned for the i-th URI, uriIssues the errors of the URIs before it.
\* The first URI without an error ends the loop.
FetchBlobTriesURI(r, i, n, uriIssues) ==
    IF r.err = OK THEN FetchBlobReturns(r.digest, IF Uninitialized(r.digest) THEN 0 ELSE i,
                                        uriIssues)
    ELSE IF i = n
    THEN FetchBlobReturns(UninitDigest, 0,
                          Append(uriIssues, [err |-> r.err, algorithms |-> r.algorithms]))
    ELSE [done |-> FALSE, digest |-> UninitDigest, uriUsed |-> 0, err |-> OK,
          uriIssues |-> Append(uriIssues, [err |-> r.err, algorithms |-> r.algorithms])]

\* Downloader.FetchBlob as the service of a caller that waits for its
\* return: the URIs are tried in order.  resps[i] is the response of the
\* i-th URI.
RECURSIVE FetchFromURIs(_, _, _, _, _, _, _)
FetchFromURIs(local, resps, i, expectedContent, alg, io, uriIssues) ==
    IF i > Len(resps)
    THEN [err |-> "unable to download asset from any uri", digest |-> UninitDigest,
          local |-> local, uriUsed |-> 0, uriIssues |-> uriIssues]
    ELSE Only({
            Only({
                IF tried.done
                THEN [err |-> tried.err, digest |-> tried.digest, local |-> r.local,
                      uriUsed |-> tried.uriUsed, uriIssues |-> tried.uriIssues]
                ELSE FetchFromURIs(r.local, resps, i + 1, expectedContent, alg, io,
                                   tried.uriIssues)
                : tried \in {FetchBlobTriesURI(r, i, Len(resps), uriIssues)}})
            : r \in {downloadBlobFromURI(local, resps[i], expectedContent, alg, io)}})

DownloaderFetchBlob(local, resps, expectedContent, alg, io) ==
    FetchFromURIs(local, resps, 1, expectedContent, alg, io, <<>>)

-----------------------------------------------------------------------------
(* packages cas and asset: the remote CAS and the remote asset service *)

\* The remote CAS is a function from the digests it reports as present to the
\* blob it serves for them (a damaged or dishonest store serves another blob).
EmptyRemote == [d \in {} |-> Garbage]

RemoteStored(remote, digest, b) ==
    [d \in DOMAIN remote \cup {digest} |-> IF d = digest THEN b ELSE remote[d]]

\* Remote.FindMissingBlobs for one digest
RemoteFindMissingBlobs(remote, digest) ==
    IF digest \in DOMAIN remote THEN {} ELSE {digest}

\* the answer of a remote asset service that fails
NoFetch == 0 - 1

\* The answer of the remote asset service to FetchBlob is a record: ok tells
\* whether the call returned a response, function is the digest function of
\* the response, hash and size are its blob digest.

\* a client that hands the response's digest on without validating it
FetchBlobResponseUnvalidated(expected, alg, answer) ==
    IF ~answer.ok THEN [err |-> "rpc", digest |-> UninitDigest]
    ELSE IF HashLen(answer.hash) # AlgorithmSizeBytes(answer.function)
    THEN [err |-> "unexpected hash size", digest |-> UninitDigest]
    ELSE [err |-> OK, digest |-> NewDigest(answer.hash, answer.size, answer.function)]

\* RemoteAssetService.FetchBlob after the call: fromProtoFetchBlobResponse
\* and the validation against the integrity's checksum for the digest
\* function
FetchBlobResponse(expected, alg, answer) ==
    IF ~answer.ok THEN [err |-> "rpc", digest |-> UninitDigest]
    ELSE IF HashLen(answer.hash) # AlgorithmSizeBytes(answer.function)
    THEN [err |-> "unexpected hash size", digest |-> UninitDigest]
    ELSE LET out == NewDigest(answer.hash, answer.size, answer.function)
             known == ChecksumForAlgorithm(expected, alg)
         IN  IF known.ok /\ ~DigestEquals(NewDigest(known.checksum.hash, out.size, alg), out)
             THEN [err |-> "unexpected digest", digest |-> UninitDigest]
             ELSE [err |-> OK, digest |-> out]

\* the answer of a service that fetched blob b
FetchedBlob(alg, b) ==
    [ok |-> TRUE, function |-> alg, hash |-> HashOf(alg, b), size |-> SizeOf(b)]

\* RemoteAssetService.FetchBlob.  fetched is what the service answers: NoFetch
\* or the blob it fetched and stored in the remote CAS under the blob's
\* digest.  The client checks the digest against the primary checksum of the
\* integrity when there is one.
RemoteAssetFetchBlob(remote, expected, alg, fetched) ==
    IF fetched = NoFetch
    THEN [err |-> "rpc", digest |-> UninitDigest, remote |-> remote]
    ELSE Only({
        [err |-> r.err, digest |-> r.digest,
         remote |-> RemoteStored(remote, DigestOfBlob(alg, fetched), fetched)]
        : r \in {FetchBlobResponse(expected, alg, FetchedBlob(alg, fetched))}})

-----------------------------------------------------------------------------
(* package prefetcher *)

\* a call made by the prefetcher's function by to a service: the error it
\* returned, the digest it asked for or answered with, for FindMissingBlobs
\* whether the blob was found, and for a transfer the bytes that were read
Call(by, call, err, digest, found) ==
    [by |-> by, call |-> call, err |-> err, digest |-> digest, found |-> found,
     data |-> Garbage]

\* Prefetcher.casRemoteToLocalTransferPart for one digest (and so
\* casRemoteToLocalTransfer): a large blob is streamed into a staging writer
\* whose Close is deferred and its error dropped; a small blob is read and
\* written in one batch
casRemoteToLocalTransferPart(local, remote, digest, alg, env) ==
    IF env.rread = "err" \/ digest \notin DOMAIN remote
    THEN [err |-> "rpc", local |-> local]
    ELSE IF digest.size >= byteStreamThreshold
    THEN LET n == SizeOf(remote[digest])
             closed == blobFinalizerClose(local, remote[digest], digest, alg, TRUE)
         IN  IF n # digest.size
             THEN [err |-> "expected to read", local |-> closed.local]
             ELSE [err |-> OK, local |-> closed.local]
    ELSE LET updated == DiskBatchUpdateBlobs(local, digest, remote[digest], alg)
         IN  [err |-> updated.err, local |-> updated.local]

\* Disk.BatchUpdateBlobs: every item is staged, written and closed, a failed
\* item does not stop the batch; the number of items that failed is counted
RECURSIVE DiskBatchUpdateItems(_, _, _, _, _, _)
DiskBatchUpdateItems(local, digests, data, alg, i, issues) ==
    IF i > Len(digests)
    THEN [err |-> IF issues > 0 THEN "batch response has non-zero status" ELSE OK,
          local |-> local, responses |-> Len(digests)]
    ELSE Only({
            DiskBatchUpdateItems(closed.local, digests, data, alg, i + 1,
                                 IF closed.err # OK THEN issues + 1 ELSE issues)
            : closed \in {blobFinalizerClose(local, data[i], digests[i], alg, TRUE)}})

\* Remote.BatchReadBlobs: the data of the responses, in the order of the
\* answer: the server's blob for a digest it has, a status other than OK and
\* no data for another; how tells how the answer differs from an answer to
\* the request.  A response with a status other than OK fails the call.
RemoteBatchReadBlobs(remote, digests, how) ==
    LET served == [i \in 1..Len(digests) |->
                      IF digests[i] \in DOMAIN remote
                      THEN [data |-> remote[digests[i]], ok |-> TRUE]
                      ELSE [data |-> Garbage, ok |-> FALSE]]
        answer == IF how = "short" THEN SubSeq(served, 1, Len(served) - 1)
                  ELSE IF how = "long" THEN Append(served, served[1])
                  ELSE IF how = "swapped"
                  THEN [i \in 1..Len(served) |-> served[Len(served) + 1 - i]]
                  ELSE served
        issues == Cardinality({i \in DOMAIN answer : ~answer[i].ok})
    IN  IF how = "err" THEN [err |-> "rpc", data |-> <<>>]
        ELSE IF issues > 0
        THEN [err |-> "batch response has non-zero status",
              data |-> [i \in DOMAIN answer |-> answer[i].data]]
        ELSE [err |-> OK, data |-> [i \in DOMAIN answer |-> answer[i].data]]

\* a prefix loop that stops after the digest that reaches the threshold
RECURSIVE numDigestsInclusive(_, _, _)
numDigestsInclusive(digests, i, cumulativeSize) ==
    IF i > Len(digests) \/ cumulativeSize >= byteStreamThreshold THEN i - 1
    ELSE numDigestsInclusive(digests, i + 1, cumulativeSize + digests[i].size)

\* the prefix loop of casRemoteToLocalTransferPart: the number of digests
\* before the first that brings the cumulative size to the threshold
RECURSIVE numDigests(_, _, _)
numDigests(digests, i, cumulativeSize) ==
    IF i > Len(digests) \/ cumulativeSize + digests[i].size >= byteStreamThreshold THEN i - 1
    ELSE numDigests(digests, i + 1, cumulativeSize + digests[i].size)

\* Prefetcher.casRemoteToLocalTransferPart for a list of digests up to the
\* answer of the remote CAS: the stream of a large head digest is opened and
\* read, or the prefix of the digests below the threshold is read in a batch
casRemoteToLocalTransferPartReads(remote, digests, alg, how) ==
    IF digests[1].size >= byteStreamThreshold
    THEN [streamed |-> TRUE, numDigests |-> 1, requested |-> <<>>,
          err |-> IF how = "err" \/ digests[1] \notin DOMAIN remote THEN "rpc" ELSE OK,
          data |-> IF digests[1] \in DOMAIN remote THEN <<remote[digests[1]]>> ELSE <<>>]
    ELSE Only({
            LET requested == SubSeq(digests, 1, n)
                read == RemoteBatchReadBlobs(remote, requested, how)
            IN  [streamed |-> FALSE, numDigests |-> n, requested |-> <<requested>>,
                 err |-> read.err, data |-> read.data]
            : n \in {numDigests(digests, 1, 0)}})

\* Prefetcher.casRemoteToLocalTransferPart from the answer r of the remote
\* CAS on: the error, the local CAS before and after, the digests that
\* remain, what was asked of the stores, the error of the read and the
\* number of its responses
casRemoteToLocalTransferPartWrites(local, digests, alg, r) ==
    LET n == r.numDigests
        part(err, loc, rest, read, responses, updated) ==
            [digests |-> digests, before |-> local, err |-> err, local |-> loc, rest |-> rest,
             numDigests |-> n, requested |-> r.requested, read |-> read,
             responses |-> responses, updated |-> updated]
    IN  IF r.streamed
        THEN IF r.err # OK THEN part(r.err, local, <<>>, r.err, 0, <<>>)
             ELSE Only({
                    part(streamed.err, streamed.local,
                         IF streamed.err = OK THEN Tail(digests) ELSE <<>>, streamed.err, 0,
                         <<>>)
                    : streamed \in {casRemoteToLocalTransferPart(
                                        local, [d \in {digests[1]} |-> r.data[1]],
                                        digests[1], alg, [rread |-> "ok"])}})
        ELSE IF r.err # OK
        THEN part(r.err, local, <<>>, r.err, Len(r.data), <<>>)
        ELSE IF Len(r.data) # n
        THEN part("unexpected number of responses from remote CAS", local, <<>>, OK,
                  Len(r.data), <<>>)
        ELSE Only({
                IF updated.err # OK
                THEN part(updated.err, updated.local, <<>>, OK, Len(r.data), r.requested)
                ELSE IF updated.responses # n
                THEN part("unexpected number of responses from local CAS", updated.local,
                          <<>>, OK, Len(r.data), r.requested)
                ELSE part(OK, updated.local, SubSeq(digests, n + 1, Len(digests)), OK,
                          Len(r.data), r.requested)
                : updated \in {DiskBatchUpdateItems(local, r.requested[1], r.data, alg, 1, 0)}})

\* the remote FindMissingBlobs call of the function by
RemoteFindCall(by, remote, digest, env) ==
    IF env.rfm = "err" THEN Call(by, "remoteCAS.FindMissingBlobs", "rpc", digest, FALSE)
    ELSE Call(by, "remoteCAS.FindMissingBlobs", OK, digest,
              RemoteFindMissingBlobs(remote, digest) = {})

\* the remote asset FetchBlob call of the function by
FetchCall(by, fetched) == Call(by, "remoteAsset.FetchBlob", fetched.err, fetched.digest, FALSE)

\* the downloader FetchBlob call of the function by
DownloadCall(by, download) ==
    Call(by, "downloader.FetchBlob", download.err, download.digest, FALSE)

\* the response of a URI that cannot be reached
NoResponse ==
    [ok |-> FALSE, status |-> 0, contentLength |-> 0 - 1, readOK |-> FALSE, body |-> Garbage]

\* the response of a URI that serves blob b without a content length
Serves(b) ==
    [ok |-> TRUE, status |-> 200, contentLength |-> 0 - 1, readOK |-> TRUE, body |-> b]

-----------------------------------------------------------------------------
(* the goroutines that run the calls of the prefetcher and of a leaf *)

\* The methods of the prefetcher and of a leaf wait for their services: the
\* checksum cache behind its shard locks, the local CAS, the remote CAS, the
\* remote asset service and the HTTP servers.  Other goroutines and the
\* remote stores run while a call waits.  A goroutine is a record of
\*   op, args    the call it runs and the arguments of a call of a leaf
\*   stack       its frames, the frame of the function that runs last
\*   ret         what the function that returned last returned
\*   seen        the errors the call observed on the way, returned or not
\*   calls       the calls it made to the services, in order
\*   known       the first answer of the checksum cache to the call
\*   succeeded   a Materialize had returned without error when it began
\*   after       a call that learned a digest had returned when it began
\*   held        the digests the remote CAS held when it last answered
\*   puts        the entries the call wrote into the checksum cache
\*   learnt      the digests the call learned from a service
\*   errno, n, value, panic, prefetched    the outcome of a call of a leaf
\* A frame is a record of the function, pc (the service call the function
\* makes next, or the place where it goes on after a callee returned), the
\* integrity and digest it works on, ok (the digest is known), n (the index
\* of a loop), got (the digest a service answered with) and data (the bytes
\* read from the remote CAS).

NGoroutines == 2

Frame(fn, integrity, digest) ==
    [fn |-> fn, pc |-> "begin", integrity |-> integrity, digest |-> digest, ok |-> FALSE,
     n |-> 1, got |-> UninitDigest, data |-> Garbage]

\* the values a function returns: the error, the digest and whether there is
\* one, and the source of the reader that RandomAccessStream returns
Return(err, digest, ok, source) ==
    [err |-> err, digest |-> digest, ok |-> ok, source |-> source]

NoReturn == Return(OK, UninitDigest, FALSE, "none")

\* the arguments of a call of a leaf: the flags of Open, the attribute name
\* and the length of the destination buffer of Getxattr
NoArgs == [flags |-> {}, attr |-> NoAttributeName, destLen |-> 0]

\* the bytes copied into the destination buffer: a hash and their number
NoValue == [hash |-> NilHash, len |-> 0]

\* a goroutine that runs no call
Idle ==
    [op |-> "none", args |-> NoArgs, stack |-> <<>>, ret |-> NoReturn, seen |-> {},
     calls |-> <<>>, looked |-> FALSE, known |-> [digest |-> UninitDigest, ok |-> FALSE],
     succeeded |-> FALSE, after |-> FALSE, held |-> {}, puts |-> {}, learnt |-> {},
     errno |-> "0",
     n |-> 0, value |-> NoValue, panic |-> "", prefetched |-> FALSE]

\* a goroutine and the stores after a step
At(g, w) == [g |-> g, w |-> w]

Top(g) == g.stack[Len(g.stack)]

SetTop(g, f) == [g EXCEPT !.stack[Len(g.stack)] = f]

\* the function goes on at pc
Goto(g, pc) == [g EXCEPT !.stack[Len(g.stack)].pc = pc]

\* the function calls the function of frame f and goes on at pc afterwards
Called(g, pc, f) == [g EXCEPT !.stack = Append([@ EXCEPT ![Len(@)].pc = pc], f)]

\* the function returns r
Pop(g, r) == [g EXCEPT !.stack = SubSeq(@, 1, Len(@) - 1), !.ret = r]

\* the call observed the error err
See(g, err) == [g EXCEPT !.seen = @ \cup {err}]

\* the function returns the error err and no digest
Fail(g, err) == Pop(See(g, err), Return(err, UninitDigest, FALSE, "none"))

\* the call made a call to a service
Made(g, call) == [g EXCEPT !.calls = Append(@, call)]

\* the call learned the digest of an asset whose digest it did not know
Learnt(g, digest) == [g EXCEPT !.learnt = @ \cup {digest}]

\* the places where a function waits for a service
ServiceCalls ==
    {"GetSlice", "PutSlice", "localCAS.FindMissingBlobs", "remoteCAS.FindMissingBlobs",
     "remoteAsset.FetchBlob", "remoteCAS.Read", "localCAS.Write", "downloader.FetchBlob",
     "localCAS.ReadRandomAccessStream"}

\* the calls that the remote CAS or the remote asset service answers
RemoteCalls == {"remoteCAS.FindMissingBlobs", "remoteAsset.FetchBlob"}

\* ChecksumCache.FromIntegrity as a goroutine runs it: one GetSlice, under
\* the lock of its shard, for each checksum until the first hit
FromIntegrityCall(g, w, env) ==
    LET f == Top(g)
        items == Items(f.integrity)
        answer(r) ==
            Pop([g EXCEPT !.looked = TRUE,
                          !.known = IF g.looked THEN @ ELSE [digest |-> r.digest, ok |-> r.ok]],
                r)
        miss == Return(OK, UninitDigest, FALSE, "none")
    IN  IF f.pc = "begin"
        THEN IF Len(items) = 0 THEN At(answer(miss), w) ELSE At(Goto(g, "GetSlice"), w)
        ELSE Only({
                IF r.ok THEN At(answer(Return(OK, r.digest, TRUE, "none")), w)
                ELSE IF f.n = Len(items) THEN At(answer(miss), w)
                ELSE At(SetTop(g, [f EXCEPT !.n = @ + 1]), w)
                : r \in {GetSlice(w.cache, items[f.n].hash,
                                  Identifier(items[f.n].algorithm))}})

\* ChecksumCache.PutIntegrity as a goroutine runs it: one PutSlice, under the
\* lock of its shard, for each checksum
PutIntegrityCall(g, w, env) ==
    LET f == Top(g)
        items == Items(f.integrity)
    IN  IF f.pc = "begin"
        THEN IF Len(items) = 0 THEN At(Pop(g, NoReturn), w) ELSE At(Goto(g, "PutSlice"), w)
        ELSE Only({
                IF f.n = Len(items) THEN At(Pop(h, NoReturn), w1)
                ELSE At(SetTop(h, [f EXCEPT !.n = @ + 1]), w1)
                : h \in {[g EXCEPT !.puts = @ \cup
                            {<<CacheKey(items[f.n].hash, Identifier(items[f.n].algorithm)),
                               f.digest>>}]},
                  w1 \in {[w EXCEPT !.cache =
                            PutIntegrityPutSlice(@, items[f.n].hash,
                                                 Identifier(items[f.n].algorithm), f.digest)]}})

\* a Prefetch that returns the known digest without asking the remote CAS
PrefetchTrusting(g, w, env) ==
    At(Pop(g, Return(OK, Top(g).digest, TRUE, "none")), w)

\* a Prefetch that fetches although the remote CAS has the blob
PrefetchRefetching(g, w, env) ==
    Only({
        IF call.err # OK THEN At(Fail(Made(g, call), call.err), w)
        ELSE At(Goto(Made(g, call), "remoteAsset.FetchBlob"), w)
        : call \in {RemoteFindCall("Prefetch", w.remote, Top(g).digest, env)}})

\* Prefetcher.Prefetch, the known digest: the remote CAS is asked for it, and
\* the digest is returned when the blob is there
PrefetchFindMissingBlobs(g, w, env) ==
    Only({
        IF call.err # OK THEN At(Fail(Made(g, call), call.err), w)
        ELSE IF call.found
        THEN At(Pop(Made(g, call), Return(OK, Top(g).digest, TRUE, "none")), w)
        ELSE At(Goto(Made(g, call), "remoteAsset.FetchBlob"), w)
        : call \in {RemoteFindCall("Prefetch", w.remote, Top(g).digest, env)}})

\* a Prefetch that returns the fetched digest without comparing it
PrefetchUncompared(g, w, env) ==
    Only({
        IF fetched.err # OK
        THEN At(Fail(Made(g, FetchCall("Prefetch", fetched)), fetched.err),
                [w EXCEPT !.remote = fetched.remote])
        ELSE IF Top(g).ok
        THEN At(Pop(Made(g, FetchCall("Prefetch", fetched)),
                    Return(OK, fetched.digest, TRUE, "none")),
                [w EXCEPT !.remote = fetched.remote])
        ELSE At(Called(SetTop(Learnt(Made(g, FetchCall("Prefetch", fetched)), fetched.digest),
                              [Top(g) EXCEPT !.got = fetched.digest]),
                       "put", Frame("PutIntegrity", asset.integrity, fetched.digest)),
                [w EXCEPT !.remote = fetched.remote])
        : fetched \in {RemoteAssetFetchBlob(w.remote, asset.integrity, digestFunction,
                                            env.fetch)}})

\* Prefetcher.Prefetch, the fetch: the remote asset service fetches the blob
\* into the remote CAS; a known digest is compared with the answer, an
\* unknown one is learned
PrefetchFetchBlob(g, w, env) ==
    Only({
        IF fetched.err # OK
        THEN At(Fail(Made(g, FetchCall("Prefetch", fetched)), fetched.err),
                [w EXCEPT !.remote = fetched.remote])
        ELSE IF Top(g).ok
        THEN IF ~DigestEquals(Top(g).digest, fetched.digest)
             THEN At(Fail(Made(g, FetchCall("Prefetch", fetched)), "expected digest"),
                     [w EXCEPT !.remote = fetched.remote])
             ELSE At(Pop(Made(g, FetchCall("Prefetch", fetched)),
                         Return(OK, fetched.digest, TRUE, "none")),
                     [w EXCEPT !.remote = fetched.remote])
        ELSE At(Called(SetTop(Learnt(Made(g, FetchCall("Prefetch", fetched)), fetched.digest),
                              [Top(g) EXCEPT !.got = fetched.digest]),
                       "put", Frame("PutIntegrity", asset.integrity, fetched.digest)),
                [w EXCEPT !.remote = fetched.remote])
        : fetched \in {RemoteAssetFetchBlob(w.remote, asset.integrity, digestFunction,
                                            env.fetch)}})

\* Prefetcher.Prefetch
Prefetch(g, w, env) ==
    LET f == Top(g)
    IN  CASE f.pc = "begin" ->
                IF ~remoteConfigured
                THEN At(Fail(g, "Prefetch called without remote asset service"), w)
                ELSE At(Called(g, "looked", Frame("FromIntegrity", asset.integrity,
                                                  UninitDigest)), w)
          [] f.pc = "looked" ->
                At(SetTop(g, [f EXCEPT !.digest = g.ret.digest, !.ok = g.ret.ok,
                                       !.pc = IF g.ret.ok THEN "remoteCAS.FindMissingBlobs"
                                              ELSE "remoteAsset.FetchBlob"]), w)
          [] f.pc = "remoteCAS.FindMissingBlobs" -> PrefetchFindMissingBlobs(g, w, env)
          [] f.pc = "remoteAsset.FetchBlob" -> PrefetchFetchBlob(g, w, env)
          [] f.pc = "put" -> At(Pop(g, Return(OK, f.got, TRUE, "none")), w)

\* Prefetcher.materializeWithDigest, the transfer from the remote CAS: the
\* blob is read from the remote CAS (ReadStream or BatchReadBlobs), then
\* written to the local CAS; a transfer that fails is logged and the download
\* follows
materializeWithDigestTransfer(g, w, env) ==
    LET f == Top(g)
        by == "materializeWithDigest"
        call(err) == Call(by, "casRemoteToLocalTransfer", err, f.digest, FALSE)
    IN  IF f.pc = "remoteCAS.Read"
        THEN IF env.rread = "err" \/ f.digest \notin DOMAIN w.remote
             THEN At(Goto(See(Made(g, call("rpc")), "rpc"), "downloader.FetchBlob"), w)
             ELSE At(SetTop(g, [f EXCEPT !.data = w.remote[f.digest],
                                         !.pc = "localCAS.Write"]), w)
        ELSE Only({
                IF transfer.err # OK
                THEN At(Goto(See(Made(g, [call(transfer.err) EXCEPT !.data = f.data]),
                                 transfer.err),
                             "downloader.FetchBlob"),
                        [w EXCEPT !.local = transfer.local])
                ELSE At(Pop(Made(g, [call(OK) EXCEPT !.data = f.data]),
                            Return(OK, f.digest, TRUE, "none")),
                        [w EXCEPT !.local = transfer.local])
                : transfer \in {casRemoteToLocalTransferPart(
                                    w.local, [d \in {f.digest} |-> f.data], f.digest,
                                    digestFunction, [rread |-> "ok"])}})

\* Prefetcher.materializeWithDigest
materializeWithDigest(g, w, env) ==
    LET f == Top(g)
        by == "materializeWithDigest"
    IN  CASE f.pc = "begin" -> At(Goto(g, "localCAS.FindMissingBlobs"), w)
          [] f.pc = "localCAS.FindMissingBlobs" ->
                Only({
                    IF call.found THEN At(Pop(Made(g, call), Return(OK, f.digest, TRUE, "none")), w)
                    ELSE At(Goto(Made(g, call),
                                 IF remoteConfigured THEN "remoteCAS.FindMissingBlobs"
                                 ELSE "downloader.FetchBlob"), w)
                    : call \in {Call(by, "localCAS.FindMissingBlobs", OK, f.digest,
                                     DiskFindMissingBlobs(w.local, f.digest) = {})}})
          [] f.pc = "remoteCAS.FindMissingBlobs" ->
                Only({
                    IF call.err # OK
                    THEN At(Pop(See(Made(g, call), call.err),
                                Return(call.err, f.digest, TRUE, "none")), w)
                    ELSE IF call.found THEN At(Goto(Made(g, call), "remoteCAS.Read"), w)
                    ELSE At(Goto(Made(g, call), "remoteAsset.FetchBlob"), w)
                    : call \in {RemoteFindCall(by, w.remote, f.digest, env)}})
          [] f.pc = "remoteAsset.FetchBlob" ->
                Only({
                    IF fetched.err # OK
                    THEN At(Goto(See(Made(g, FetchCall(by, fetched)), fetched.err),
                                 "downloader.FetchBlob"),
                            [w EXCEPT !.remote = fetched.remote])
                    ELSE IF ~DigestEquals(f.digest, fetched.digest)
                    THEN At(Pop(See(Made(g, FetchCall(by, fetched)), "expected digest"),
                                Return("expected digest", f.digest, TRUE, "none")),
                            [w EXCEPT !.remote = fetched.remote])
                    ELSE At(Goto(Made(g, FetchCall(by, fetched)), "remoteCAS.Read"),
                            [w EXCEPT !.remote = fetched.remote])
                    : fetched \in {RemoteAssetFetchBlob(w.remote, asset.integrity,
                                                        digestFunction, env.fetch)}})
          [] f.pc \in {"remoteCAS.Read", "localCAS.Write"} ->
                materializeWithDigestTransfer(g, w, env)
          [] f.pc = "downloader.FetchBlob" ->
                Only({
                    IF download.err # OK
                    THEN At(Pop(See(Made(g, DownloadCall(by, download)), download.err),
                                Return(download.err, f.digest, TRUE, "none")),
                            [w EXCEPT !.local = download.local])
                    ELSE At(Pop(Made(g, DownloadCall(by, download)),
                                Return(OK, f.digest, TRUE, "none")),
                            [w EXCEPT !.local = download.local])
                    : download \in {DownloaderFetchBlob(w.local, env.dl, asset.integrity,
                                                        digestFunction, HealthyIO)}})

\* Prefetcher.Materialize
Materialize(g, w, env) ==
    LET f == Top(g)
        with(digest) == Frame("materializeWithDigest", asset.integrity, digest)
    IN  CASE f.pc = "begin" ->
                At(Called(g, "looked", Frame("FromIntegrity", asset.integrity, UninitDigest)), w)
          [] f.pc = "looked" ->
                IF g.ret.ok THEN At(Called(g, "materialized", with(g.ret.digest)), w)
                ELSE At(Called(g, "prefetched", Frame("Prefetch", asset.integrity,
                                                      UninitDigest)), w)
          [] f.pc = "prefetched" ->
                IF g.ret.err = OK THEN At(Called(g, "materialized", with(g.ret.digest)), w)
                ELSE At(Goto(g, "downloader.FetchBlob"), w)
          [] f.pc = "materialized" -> At(Pop(g, g.ret), w)
          [] f.pc = "downloader.FetchBlob" ->
                Only({
                    IF download.err # OK
                    THEN At(Fail(Made(g, DownloadCall("Materialize", download)), download.err),
                            [w EXCEPT !.local = download.local])
                    ELSE At(Called(SetTop(Learnt(Made(g, DownloadCall("Materialize", download)),
                                                 download.digest),
                                          [f EXCEPT !.got = download.digest]),
                                   "put", Frame("PutIntegrity", asset.integrity, download.digest)),
                            [w EXCEPT !.local = download.local])
                    : download \in {DownloaderFetchBlob(w.local, env.dl, asset.integrity,
                                                        digestFunction, HealthyIO)}})
          [] f.pc = "put" -> At(Pop(g, Return(OK, f.got, TRUE, "none")), w)

\* a getOrLearnDigest that returns what it learned without storing it
getOrLearnDigestForgetting(g, digest) ==
    Pop(g, Return(OK, digest, TRUE, "none"))

\* the deferred function of getOrLearnDigest: a digest that was learned is
\* put into the checksum cache before the function returns it
getOrLearnDigestDeferred(g, digest) ==
    IF Uninitialized(digest) THEN Pop(g, Return(OK, digest, TRUE, "none"))
    ELSE Called(SetTop(g, [Top(g) EXCEPT !.got = digest]), "put",
                Frame("PutIntegrity", asset.integrity, digest))

\* Prefetcher.getOrLearnDigest
getOrLearnDigest(g, w, env) ==
    LET f == Top(g)
        by == "getOrLearnDigest"
    IN  CASE f.pc = "begin" ->
                At(Called(g, "looked", Frame("FromIntegrity", asset.integrity, UninitDigest)), w)
          [] f.pc = "looked" ->
                IF g.ret.ok THEN At(Pop(g, Return(OK, g.ret.digest, TRUE, "none")), w)
                ELSE At(Goto(g, IF remoteConfigured THEN "remoteAsset.FetchBlob"
                                ELSE "downloader.FetchBlob"), w)
          [] f.pc = "remoteAsset.FetchBlob" ->
                Only({
                    IF fetched.err # OK
                    THEN At(Goto(See(Made(g, FetchCall(by, fetched)), fetched.err),
                                 "downloader.FetchBlob"),
                            [w EXCEPT !.remote = fetched.remote])
                    ELSE At(getOrLearnDigestDeferred(
                                Learnt(Made(g, FetchCall(by, fetched)), fetched.digest),
                                fetched.digest),
                            [w EXCEPT !.remote = fetched.remote])
                    : fetched \in {RemoteAssetFetchBlob(w.remote, asset.integrity,
                                                        digestFunction, env.fetch)}})
          [] f.pc = "downloader.FetchBlob" ->
                Only({
                    IF download.err # OK
                    THEN At(Fail(See(Made(g, DownloadCall(by, download)), download.err),
                                 "failed to learn digest"),
                            [w EXCEPT !.local = download.local])
                    ELSE At(getOrLearnDigestDeferred(
                                Learnt(Made(g, DownloadCall(by, download)), download.digest),
                                download.digest),
                            [w EXCEPT !.local = download.local])
                    : download \in {DownloaderFetchBlob(w.local, env.dl, asset.integrity,
                                                        digestFunction, HealthyIO)}})
          [] f.pc = "put" -> At(Pop(g, Return(OK, f.got, TRUE, "none")), w)

\* Disk.ReadRandomAccessStream: opening the file of the blob
DiskReadRandomAccessStream(local, digest) ==
    IF blobPath(digest.hash) \in DOMAIN local THEN OK ELSE "open"

\* Prefetcher.RandomAccessStream: the source of the reader is "local" for a
\* file of the local CAS and "remote" for a streaming file handle
RandomAccessStream(g, w, env) ==
    LET f == Top(g)
        by == "RandomAccessStream"
    IN  CASE f.pc = "begin" ->
                At(Called(g, "learned", Frame("getOrLearnDigest", asset.integrity,
                                              UninitDigest)), w)
          [] f.pc = "learned" ->
                IF g.ret.err # OK THEN At(Pop(g, g.ret), w)
                ELSE IF g.ret.digest.size < byteStreamThreshold \/ ~remoteConfigured
                THEN At(Called(SetTop(g, [f EXCEPT !.digest = g.ret.digest]), "materialized",
                               Frame("Materialize", asset.integrity, UninitDigest)), w)
                ELSE At(SetTop(g, [f EXCEPT !.digest = g.ret.digest,
                                            !.pc = "localCAS.FindMissingBlobs"]), w)
          [] f.pc = "materialized" ->
                IF g.ret.err # OK
                THEN At(Pop(g, Return(g.ret.err, f.digest, TRUE, "none")), w)
                ELSE At(Goto(g, "localCAS.ReadRandomAccessStream"), w)
          [] f.pc = "localCAS.FindMissingBlobs" ->
                Only({
                    IF call.found
                    THEN At(Goto(Made(g, call), "localCAS.ReadRandomAccessStream"), w)
                    ELSE At(Called(Made(g, call), "prefetched",
                                   Frame("Prefetch", asset.integrity, UninitDigest)), w)
                    : call \in {Call(by, "localCAS.FindMissingBlobs", OK, f.digest,
                                     DiskFindMissingBlobs(w.local, f.digest) = {})}})
          [] f.pc = "prefetched" ->
                IF g.ret.err # OK
                THEN At(Pop(g, Return(g.ret.err, f.digest, TRUE, "none")), w)
                ELSE At(Pop(g, Return(OK, f.digest, TRUE, "remote")), w)
          [] f.pc = "localCAS.ReadRandomAccessStream" ->
                IF DiskReadRandomAccessStream(w.local, f.digest) # OK
                THEN At(Pop(See(g, "open"), Return("open", f.digest, TRUE, "none")), w)
                ELSE At(Pop(g, Return(OK, f.digest, TRUE, "local")), w)

-----------------------------------------------------------------------------
(* package fs: the leaf of an asset *)

\* leaf.digest: no code of the repository assigns the field, a leaf has the
\* zero value Digest{}
UnsetDigest == UninitDigest

\* the attribute name "user." + rest
UserAttribute(rest) == [prefix |-> "user.", rest |-> rest]

\* strings.ToLower, on the names of the model: every upper case letter of a
\* name is mapped to its lower case letter
ToLower(name) ==
    CASE name \in {"SHA256", "Sha256"} -> "sha256"
      [] name \in {"SHA384", "Sha384"} -> "sha384"
      [] name \in {"SHA512", "Sha512"} -> "sha512"
      [] name \in {"BLAKE3", "Blake3"} -> "blake3"
      [] name \in {"DIGEST", "Digest"} -> "digest"
      [] OTHER -> name

\* integrity.AlgorithmFromString
AlgorithmFromString(name) ==
    IF ToLower(name) \in Algorithms THEN [algorithm |-> ToLower(name), ok |-> TRUE]
    ELSE [algorithm |-> NoAlgorithm, ok |-> FALSE]

\* the flags of open(2) that ask for more than reading, and the flags that
\* leaf.Open supports; O_RDONLY is no flag
WriteFlags == {"O_WRONLY", "O_RDWR", "O_TRUNC", "O_APPEND", "O_CREAT", "O_EXCL"}
SupportedFlags == {"O_LARGEFILE", "0x8000", "O_NOATIME", "O_NOFOLLOW"}

\* leaf.Open: the flags are checked, a leaf without digest is refused, the
\* asset is materialized, RandomAccessStream returns the reader
Open(g, w, env) ==
    LET f == Top(g)
        fails(errno, err) ==
            Pop([g EXCEPT !.errno = errno], Return(err, UninitDigest, FALSE, "none"))
    IN  CASE f.pc = "begin" ->
                IF g.args.flags \cap WriteFlags # {} THEN At(fails("EACCES", "EACCES"), w)
                ELSE IF g.args.flags \ SupportedFlags # {} THEN At(fails("EINVAL", "EINVAL"), w)
                ELSE IF Uninitialized(UnsetDigest) THEN At(fails("EIO", "EIO"), w)
                ELSE At(Called(g, "materialized", Frame("Materialize", asset.integrity,
                                                        UninitDigest)), w)
          [] f.pc = "materialized" ->
                IF g.ret.err # OK THEN At(fails("EIO", g.ret.err), w)
                ELSE At(Called(g, "streamed", Frame("RandomAccessStream", asset.integrity,
                                                    UninitDigest)), w)
          [] f.pc = "streamed" ->
                IF g.ret.err # OK THEN At(fails("EIO", g.ret.err), w)
                ELSE At(Pop(g, g.ret), w)

\* a getxattr that makes the asset available locally
materializeOnGetxattr(g) ==
    Called(g, "prefetched", Frame("Materialize", asset.integrity, UninitDigest))

\* the side effect of leaf.Getxattr: root.prefetcher.Prefetch(ctx, l.toAsset())
prefetchOnGetxattr(g) ==
    Called(g, "prefetched", Frame("Prefetch", asset.integrity, UninitDigest))

\* leaf.Getxattr with a destination buffer of destLen bytes: the number and
\* errno returned, the bytes copied into the buffer (a hash and the number of
\* its bytes) or the panic that ends the process.  In the "user." branch the
\* algorithm found is assigned to a variable of that branch, the algorithm
\* used after the branch is the zero value.
Getxattr(g, w, env) ==
    LET f == Top(g)
        attr == g.args.attr
        found == AlgorithmFromString(attr.rest)
        checksum == ChecksumForAlgorithm(asset.integrity, found.algorithm)
        named == attr = digestHashAttributeName
        digest == IF named THEN UnsetDigest
                  ELSE NewDigest(checksum.checksum.hash, UnsetDigest.size,
                                 checksum.checksum.algorithm)
        algorithm == IF named THEN digestFunction ELSE NoAlgorithm
        returned(n, errno, value, panic) ==
            Pop([g EXCEPT !.n = n, !.errno = errno, !.value = value, !.panic = panic,
                          !.prefetched = f.pc = "prefetched"],
                Return(IF f.pc = "prefetched" THEN g.ret.err ELSE OK, digest, TRUE, "none"))
    IN  CASE f.pc = "begin" ->
                IF ~named /\ attr.prefix # "user."
                THEN At(Pop([g EXCEPT !.errno = "ENODATA"], NoReturn), w)
                ELSE IF ~named /\ ~found.ok
                THEN At(Pop([g EXCEPT !.errno = "ENODATA"], NoReturn), w)
                ELSE IF ~named /\ ~checksum.ok
                THEN At(Pop([g EXCEPT !.errno = "ENODATA"], NoReturn), w)
                ELSE At(prefetchOnGetxattr(g), w)
          [] f.pc = "prefetched" ->
                IF g.ret.err # OK
                THEN At(returned(0, "panic", NoValue, "prefetch failed"), w)
                ELSE IF algorithm \notin Algorithms
                THEN At(returned(0, "panic", NoValue, "unsupported algorithm"), w)
                ELSE IF g.args.destLen < AlgorithmSizeBytes(algorithm)
                THEN At(returned(AlgorithmSizeBytes(algorithm), "ERANGE", NoValue, ""), w)
                ELSE At(returned(AlgorithmSizeBytes(algorithm), "0",
                                 [hash |-> digest.hash, len |-> AlgorithmSizeBytes(algorithm)],
                                 ""), w)

-----------------------------------------------------------------------------
(* the steps of a goroutine *)

\* the function of the frame on top of the stack runs from its pc to the
\* next place where it waits, calls or returns
Run(g, w, env) ==
    LET fn == Top(g).fn
    IN  CASE fn = "FromIntegrity" -> FromIntegrityCall(g, w, env)
          [] fn = "PutIntegrity" -> PutIntegrityCall(g, w, env)
          [] fn = "Prefetch" -> Prefetch(g, w, env)
          [] fn = "materializeWithDigest" -> materializeWithDigest(g, w, env)
          [] fn = "Materialize" -> Materialize(g, w, env)
          [] fn = "getOrLearnDigest" -> getOrLearnDigest(g, w, env)
          [] fn = "RandomAccessStream" -> RandomAccessStream(g, w, env)
          [] fn = "Open" -> Open(g, w, env)
          [] fn = "Getxattr" -> Getxattr(g, w, env)

\* what a service answers to a call: rfm, the remote FindMissingBlobs call
\* works or fails; fetch, the blob the remote asset service fetches, or
\* NoFetch; rread, reading from the remote CAS works or fails; dl, the HTTP
\* responses of the asset's URIs
NoEnv == [rfm |-> "ok", fetch |-> NoFetch, rread |-> "ok", dl |-> <<NoResponse>>]

\* the answers a call at pc can get
EnvsAt(pc) ==
    CASE pc = "remoteCAS.FindMissingBlobs" -> {[NoEnv EXCEPT !.rfm = x] : x \in {"ok", "err"}}
      [] pc = "remoteAsset.FetchBlob" -> {[NoEnv EXCEPT !.fetch = x] : x \in {NoFetch} \cup Blobs}
      [] pc = "remoteCAS.Read" -> {[NoEnv EXCEPT !.rread = x] : x \in {"ok", "err"}}
      [] pc = "downloader.FetchBlob" ->
            {[NoEnv EXCEPT !.dl = x] : x \in {<<NoResponse>>} \cup {<<Serves(b)>> : b \in Blobs}}
      [] OTHER -> {NoEnv}

\* a goroutine runs on without waiting until it waits for a service or its
\* call has returned
RECURSIVE Settle(_)
Settle(s) ==
    IF s.g.stack = <<>> THEN s
    ELSE IF Top(s.g).pc \in ServiceCalls THEN s
    ELSE Only({Settle(r) : r \in {Run(s.g, s.w, NoEnv)}})

-----------------------------------------------------------------------------
(* SpecPrefetch: one asset, the prefetcher's operations and the environment *)

\* the assets: the integrity of blob 1 (small) or 2 (large) with the primary
\* checksum, another checksum or both, and the size hint of the manifest
Assets ==
    UNION {{[integrity |-> IntegrityOf(b, s), sizeHint |-> h] :
                s \in {{digestFunction}, {"sha384"}, {digestFunction, "sha384"}},
                h \in {0 - 1, SizeOf(b)}} : b \in {1, 2}}

\* the record of the call that returned in the last step, as the goroutine
\* kept it, and ever: whether a Materialize has returned without error and
\* whether a call that learned a digest has returned, in this step or before
NoCall ==
    [op |-> "none", err |-> OK, seen |-> {}, digest |-> UninitDigest, errno |-> "0",
     calls |-> <<>>, known |-> [digest |-> UninitDigest, ok |-> FALSE], succeeded |-> FALSE,
     after |-> FALSE, source |-> "none", held |-> {}, puts |-> {}, learnt |-> {},
     n |-> 0, value |-> NoValue, panic |-> "", prefetched |-> FALSE, args |-> NoArgs,
     ever |-> [materialized |-> FALSE, learned |-> FALSE]]

Ever ==
    [materialized |-> last.ever.materialized \/ (last.op = "Materialize" /\ last.err = OK),
     learned |-> last.ever.learned \/ last.learnt # {}]

\* no call returned in a step
Quiet == [NoCall EXCEPT !.ever = Ever]

\* the stores that the goroutines share
World == [cache |-> cache, local |-> localCAS, remote |-> remoteCAS]

\* a panic ends the process
Alive == \A t \in DOMAIN goroutines : goroutines[t].panic = ""

\* a goroutine begins the call op with the function fn and runs until it
\* waits for the first time; the goroutines are alike, the first idle one
\* takes the call
Begins(op, args, fn) ==
    /\ Alive
    /\ nSteps < MaxSteps
    /\ \E t \in DOMAIN goroutines :
          /\ goroutines[t].op = "none"
          /\ \A u \in 1..(t - 1) : goroutines[u].op # "none"
          /\ \E s \in {Settle(At([Idle EXCEPT
                                    !.op = op, !.args = args,
                                    !.stack = <<Frame(fn, asset.integrity, UninitDigest)>>,
                                    !.succeeded = Ever.materialized,
                                    !.after = Ever.learned], World))} :
                goroutines' = [goroutines EXCEPT ![t] = s.g]
    /\ last' = Quiet
    /\ nSteps' = nSteps + 1
    /\ UNCHANGED <<confVars, watchVars, streamVars, histVars, diskVars, cache, localCAS,
                   remoteCAS>>

\* the service that goroutine t waits for answers (a cache access is made
\* under the lock of the shard), and the goroutine runs on until it waits
\* again or its call is over
ServiceAnswers(t) ==
    /\ Alive
    /\ goroutines[t].stack # <<>>
    /\ \E env \in EnvsAt(Top(goroutines[t]).pc) :
          \E r \in {Run(goroutines[t], World, env)} :
              \E s \in {Settle(r)} :
                  /\ goroutines' =
                        [goroutines EXCEPT ![t] =
                            IF Top(goroutines[t]).pc \in RemoteCalls
                            THEN [s.g EXCEPT !.held = DOMAIN s.w.remote]
                            ELSE s.g]
                  /\ cache' = s.w.cache
                  /\ localCAS' = s.w.local
                  /\ remoteCAS' = s.w.remote
    /\ last' = Quiet
    /\ UNCHANGED <<confVars, watchVars, streamVars, histVars, diskVars, nSteps>>

\* the call of goroutine t returns to its caller, or its panic ends the
\* process
Returns(t) ==
    /\ goroutines[t].op # "none"
    /\ goroutines[t].stack = <<>>
    /\ \E g \in {goroutines[t]} :
          /\ last' = [op |-> g.op, err |-> g.ret.err, seen |-> g.seen, digest |-> g.ret.digest,
                      errno |-> g.errno, calls |-> g.calls, known |-> g.known,
                      succeeded |-> g.succeeded, after |-> g.after, source |-> g.ret.source,
                      held |-> g.held, puts |-> g.puts, learnt |-> g.learnt, n |-> g.n,
                      value |-> g.value, panic |-> g.panic, prefetched |-> g.prefetched,
                      args |-> g.args, ever |-> Ever]
          /\ goroutines' = [goroutines EXCEPT ![t] = [Idle EXCEPT !.panic = g.panic]]
    /\ UNCHANGED <<confVars, watchVars, streamVars, histVars, diskVars, cache, localCAS,
                   remoteCAS, nSteps>>

InitPrefetch ==
    /\ digestFunction = "sha256"
    /\ seed = NoCollision
    /\ goroutines = [t \in 1..NGoroutines |-> Idle]
    /\ digestHashAttributeName = NoAttributeName
    /\ NoWatcher
    /\ remoteConfigured \in BOOLEAN
    /\ asset \in Assets
    \* watcher.New primes the cache with the manifest's leaves
    /\ cache = PrimeLeaf(EmptyCache, asset)
    /\ localCAS = EmptyDisk
    /\ remoteCAS = EmptyRemote
    /\ last = NoCall
    /\ nSteps = 0
    /\ firstLearned = EmptyCache
    /\ lastWrites = {}
    /\ lastPut = [valid |-> FALSE]
    /\ nWrites = 0
    /\ manifestLeafs = <<asset>>
    /\ staging = <<>>
    /\ streams = <<>>
    /\ handle = NoHandle
    /\ lastRead = NoRead

\* Prefetcher.Prefetch is called
DoPrefetch == Begins("Prefetch", NoArgs, "Prefetch")

\* Prefetcher.Materialize is called
DoMaterialize == Begins("Materialize", NoArgs, "Materialize")

\* Prefetcher.RandomAccessStream is called
DoRandomAccessStream == Begins("RandomAccessStream", NoArgs, "RandomAccessStream")

\* the flags of an open(2) of a leaf
OpenFlags == {{}, {"O_NOATIME", "0x8000"}, {"O_WRONLY"}, {"O_APPEND"}, {"O_NONBLOCK"}}

\* leaf.Open is called
LeafOpen == \E flags \in OpenFlags : Begins("Open", [NoArgs EXCEPT !.flags = flags], "Open")

\* the remote CAS evicts a blob
RemoteEvicts ==
    /\ Alive
    /\ nSteps < MaxSteps
    /\ \E d \in DOMAIN remoteCAS :
          remoteCAS' = [e \in DOMAIN remoteCAS \ {d} |-> remoteCAS[e]]
    /\ last' = Quiet
    /\ nSteps' = nSteps + 1
    /\ UNCHANGED <<cfgVars, watchVars, streamVars, histVars, diskVars, cache, localCAS>>

\* the remote CAS serves other bytes for a digest than the digest's blob
RemoteCorrupts ==
    /\ Alive
    /\ nSteps < MaxSteps
    /\ \E d \in DOMAIN remoteCAS, b \in Blobs :
          /\ b # remoteCAS[d]
          /\ remoteCAS' = [remoteCAS EXCEPT ![d] = b]
    /\ last' = Quiet
    /\ nSteps' = nSteps + 1
    /\ UNCHANGED <<cfgVars, watchVars, streamVars, histVars, diskVars, cache, localCAS>>

NextPrefetch ==
    \/ DoPrefetch
    \/ DoMaterialize
    \/ DoRandomAccessStream
    \/ LeafOpen
    \/ \E t \in DOMAIN goroutines : ServiceAnswers(t)
    \/ \E t \in DOMAIN goroutines : Returns(t)
    \/ RemoteEvicts
    \/ RemoteCorrupts

SpecPrefetch == InitPrefetch /\ [][NextPrefetch]_vars

-----------------------------------------------------------------------------
(* Claims about the prefetcher *)

\* the digest the prefetcher associates with the asset
DigestOfAsset == FromIntegrity(cache, asset.integrity)

\* C1: when Materialize returns without error, the local CAS reports the
\* asset's digest as present.
C1_MaterializedIsLocal ==
    (last.op = "Materialize" /\ last.err = OK) =>
        /\ DigestOfAsset.ok
        /\ DiskFindMissingBlobs(localCAS, DigestOfAsset.digest) = {}

\* the errors that report a violated integrity: the remote asset service
\* answered with a digest that contradicts the integrity or the known digest,
\* or content failed its checksum validation
IntegrityErrors == {"unexpected digest", "expected digest", "validation", "invalid checksum"}

\* C2: an integrity error observed by the prefetcher during Prefetch,
\* Materialize or Open makes the operation fail, and Open answers EIO.
C2_IntegrityErrorSurfaces ==
    (last.op \in {"Prefetch", "Materialize", "Open"} /\ last.seen \cap IntegrityErrors # {}) =>
        /\ last.err # OK
        /\ last.op = "Open" => last.errno = "EIO"

\* C3 as stated: when Prefetch returns a digest without error (a remote CAS
\* being configured), the remote CAS reports that digest as present at the
\* moment of the return.
C3_PrefetchedIsRemote ==
    (last.op = "Prefetch" /\ last.err = OK /\ remoteConfigured) =>
        RemoteFindMissingBlobs(remoteCAS, last.digest) = {}

\* C3 amended: when Prefetch returns a digest without error, the remote CAS
\* held that digest when it last answered the call: at the answer of
\* FindMissingBlobs for a known digest, at the answer of FetchBlob for a
\* digest that was fetched or learned.
C3_PrefetchedWasRemote ==
    (last.op = "Prefetch" /\ last.err = OK /\ remoteConfigured) =>
        last.digest \in last.held

\* C3 witness: Prefetch returned the digest of the large blob, which the
\* remote CAS had evicted after its answer
C3_Witness ==
    /\ last.op = "Prefetch" /\ last.err = OK /\ remoteConfigured
    /\ last.digest = DigestOfBlob(digestFunction, 2)
    /\ last.digest \in last.held
    /\ RemoteFindMissingBlobs(remoteCAS, last.digest) # {}

\* the calls of a step that look for a blob, and those that move content
FindCalls == {"localCAS.FindMissingBlobs", "remoteCAS.FindMissingBlobs"}

\* C11: a Materialize that follows a successful Materialize of the asset
\* makes at most one FindMissingBlobs call and no other call: no FetchBlob of
\* the remote asset service, no transfer from the remote CAS, no download
C11_RepeatedMaterializeIsIdle ==
    (last.op = "Materialize" /\ last.succeeded) =>
        /\ Len(last.calls) <= 1
        /\ \A i \in DOMAIN last.calls : last.calls[i].call \in FindCalls

\* C12: when Prefetch (called directly, or by RandomAccessStream for a large
\* blob) knows the asset's digest and the remote CAS reports it as present,
\* Prefetch returns that digest at once: it makes no further call, FetchBlob
\* least of all; a direct call returns the digest without error, and
\* RandomAccessStream returns a reader that streams from the remote CAS
C12_KnownAndRemoteReturnsAtOnce ==
    \A i \in DOMAIN last.calls :
        (/\ last.calls[i].by = "Prefetch"
         /\ last.calls[i].call = "remoteCAS.FindMissingBlobs"
         /\ last.calls[i].err = OK
         /\ last.calls[i].found)
            => /\ i < Len(last.calls) => last.calls[i + 1].by # "Prefetch"
               /\ last.op = "Prefetch"
                      => /\ i = Len(last.calls)
                         /\ last.err = OK
                         /\ last.digest = last.calls[i].digest
               /\ last.op = "RandomAccessStream"
                      => i = Len(last.calls) /\ last.err = OK /\ last.source = "remote"

\* RandomAccessStream of a large blob got a streaming reader from a Prefetch
\* that found the known digest in the remote CAS
C12_Witness ==
    /\ last.op = "RandomAccessStream" /\ last.source = "remote"
    /\ Len(last.calls) > 1
    /\ last.calls[Len(last.calls)].by = "Prefetch"
    /\ last.calls[Len(last.calls)].call = "remoteCAS.FindMissingBlobs"
    /\ last.calls[Len(last.calls)].found

\* the FetchBlob calls of Prefetch that answered with a digest other than the
\* known digest Prefetch had asked the remote CAS for just before
Disagreeing ==
    {i \in DOMAIN last.calls :
        /\ i > 1
        /\ last.calls[i].by = "Prefetch" /\ last.calls[i].call = "remoteAsset.FetchBlob"
        /\ last.calls[i].err = OK
        /\ last.calls[i - 1].by = "Prefetch"
        /\ last.calls[i - 1].call = "remoteCAS.FindMissingBlobs"
        /\ ~DigestEquals(last.calls[i - 1].digest, last.calls[i].digest)}

\* C13: when FetchBlob answers a Prefetch with a digest that disagrees with
\* the known digest, Prefetch fails with the integrity error "expected
\* digest" and returns no digest; a RandomAccessStream that issued it fails
\* with that error and returns no reader
C13_DisagreeingDigestFailsPrefetch ==
    Disagreeing # {} =>
        /\ "expected digest" \in last.seen
        /\ "expected digest" \in IntegrityErrors
        /\ last.op = "Prefetch" => last.err = "expected digest" /\ Uninitialized(last.digest)
        /\ last.op = "RandomAccessStream"
               => last.err = "expected digest" /\ last.source = "none"

\* a Prefetch that knew the digest got another one from the remote asset
\* service
C13_Witness == last.op = "Prefetch" /\ last.known.ok /\ Disagreeing # {}

\* the errors of a transport failure or of a blob that is not found
TransportErrors == {"rpc", "http", "unexpected status code", "body"}

\* C14: a transport failure of a call that Materialize makes to a higher
\* tier (remote FindMissingBlobs, FetchBlob, the remote to local transfer) is
\* not fatal: Materialize succeeds, or it fails after the direct download was
\* tried as the last tier and failed
C14_TransportFailureFallsBack ==
    (/\ last.op = "Materialize"
     /\ \E i \in DOMAIN last.calls :
           /\ last.calls[i].err \in TransportErrors
           /\ last.calls[i].call # "downloader.FetchBlob")
        => \/ last.err = OK
           \/ /\ last.calls[Len(last.calls)].call = "downloader.FetchBlob"
              /\ last.calls[Len(last.calls)].err # OK

\* the transfers of large blobs that the last step reported as successful
LargeTransfers ==
    {i \in DOMAIN last.calls :
        /\ last.calls[i].call = "casRemoteToLocalTransfer"
        /\ last.calls[i].err = OK
        /\ last.calls[i].digest.size >= byteStreamThreshold}

\* C17: a transfer of a blob of at least 1 MiB from the remote CAS to the
\* local CAS reports success only if size_bytes bytes were read and the
\* staging writer validated the digest on close, so that the blob is in the
\* local CAS with the contents of its digest
C17_LargeTransferSucceedsOnlyValidated ==
    \A i \in LargeTransfers :
        LET digest == last.calls[i].digest
        IN  /\ SizeOf(last.calls[i].data) = digest.size
            /\ CheckContent(digest, last.calls[i].data, digestFunction)
            /\ blobPath(digest.hash) \in DOMAIN localCAS
            /\ CheckContent(digest, localCAS[blobPath(digest.hash)].content, digestFunction)

\* the part of C17 about the length: a successful transfer of a large blob
\* has read size_bytes bytes
C17_LargeTransferReadsSizeBytes ==
    \A i \in LargeTransfers :
        SizeOf(last.calls[i].data) = last.calls[i].digest.size

-----------------------------------------------------------------------------
(* SpecDigest: the three verbs of the prefetcher on one asset *)

\* digest_of is called: getOrLearnDigest on its own
DoAssetDigest == Begins("AssetDigest", NoArgs, "getOrLearnDigest")

NextDigest ==
    \/ DoAssetDigest
    \/ DoPrefetch
    \/ DoMaterialize
    \/ \E t \in DOMAIN goroutines : ServiceAnswers(t)
    \/ \E t \in DOMAIN goroutines : Returns(t)
    \/ RemoteEvicts
    \/ RemoteCorrupts

SpecDigest == InitPrefetch /\ [][NextDigest]_vars

\* C19: a call that learned a digest has written it into the checksum cache
\* under every algorithm of the asset's integrity before it returns, the
\* cache hits for every checksum of the asset, and a digest_of that begins
\* after such a call has returned gets its digest from the cache without a
\* call to any service
C19_LearnedDigestIsCached ==
    /\ last.learnt # {} =>
          /\ \A d \in last.learnt : WritesOf(asset.integrity, d) \subseteq last.puts
          /\ \A a \in Algorithms :
                asset.integrity[a] # NilHash
                    => GetSlice(cache, asset.integrity[a], Identifier(a)).ok
    /\ (last.op = "AssetDigest" /\ last.after) =>
          /\ last.err = OK
          /\ last.known.ok /\ last.digest = last.known.digest
          /\ last.calls = <<>>

\* digest_of learned the digest of an asset with two checksums from a
\* download after the remote asset service failed
C19_Witness ==
    /\ last.op = "AssetDigest" /\ last.err = OK /\ last.learnt # {}
    /\ Len(last.calls) = 2
    /\ last.calls[1].call = "remoteAsset.FetchBlob" /\ last.calls[1].err # OK
    /\ last.calls[2].call = "downloader.FetchBlob"
    /\ asset.integrity[digestFunction] # NilHash /\ asset.integrity["sha384"] # NilHash

-----------------------------------------------------------------------------
(* SpecDisk: the writers of the local Disk CAS *)

\* number of staging files open at the same time
MaxStaging == 2
\* number of steps explored by SpecDisk
MaxDiskSteps == 4

\* the digests a staging file is opened for: the digest of blob 1 or 2, or
\* its hash with a wrong size
DiskDigests ==
    UNION {{NewDigest(HashOf(digestFunction, b), n, digestFunction) : n \in {SizeOf(b), SizeOf(b) + 1}} :
                b \in {1, 2}}

\* what a writer may have written: a whole blob, or part of one
DiskData == Blobs \cup {Garbage}

\* the integrities the downloader is called with in SpecDisk
DiskIntegrities ==
    {IntegrityOf(1, {digestFunction}), IntegrityOf(2, {"sha384"}),
     IntegrityOf(2, {digestFunction, "sha384"})}

\* the file system below hardlinkOrCopy: a copy that works, a link that
\* works, and a copy that fails
DiskIOs ==
    {HealthyIO, [isFile |-> FALSE, linkOK |-> TRUE, copyOK |-> TRUE],
     [isFile |-> FALSE, linkOK |-> FALSE, copyOK |-> FALSE]}

\* the responses of a URI in SpecDisk: a blob with or without its length
DiskResponses ==
    UNION {{[Serves(b) EXCEPT !.contentLength = n] : n \in {0 - 1, SizeOf(b)}} : b \in Blobs}

\* staging without its i-th file
WithoutStaging(i) == [j \in 1..(Len(staging) - 1) |-> IF j < i THEN staging[j] ELSE staging[j + 1]]

\* a step of the Disk CAS: the directory and the outcome
DiskStep(op, err, local) ==
    /\ nSteps < MaxDiskSteps
    /\ localCAS' = local
    /\ last' = [op |-> op, err |-> err]
    /\ nSteps' = nSteps + 1
    /\ UNCHANGED <<cfgVars, watchVars, streamVars, histVars, cache, remoteCAS>>

InitDisk ==
    /\ digestFunction = "sha256"
    /\ seed = NoCollision
    /\ goroutines = <<>>
    /\ digestHashAttributeName = NoAttributeName
    /\ NoWatcher
    /\ remoteConfigured = FALSE
    /\ asset = [integrity |-> EmptyIntegrity, sizeHint |-> 0 - 1]
    /\ cache = EmptyCache
    /\ localCAS = EmptyDisk
    /\ remoteCAS = EmptyRemote
    /\ last = [op |-> "none", err |-> OK]
    /\ nSteps = 0
    /\ firstLearned = EmptyCache
    /\ lastWrites = {}
    /\ lastPut = [valid |-> FALSE]
    /\ nWrites = 0
    /\ manifestLeafs = <<>>
    /\ staging = <<>>
    /\ streams = <<>>
    /\ handle = NoHandle
    /\ lastRead = NoRead

\* Disk.WriteStream: a staging file is created and preallocated
DiskWriteStream ==
    /\ Len(staging) < MaxStaging
    /\ \E digest \in DiskDigests :
          staging' = Append(staging, [digest |-> digest, content |-> Garbage])
    /\ DiskStep("WriteStream", OK, localCAS)

\* blobFinalizer.Write (os.File.Write): the writer of the staging file has
\* written data so far
StagingWrite ==
    /\ \E i \in DOMAIN staging, data \in DiskData :
          staging' = [staging EXCEPT ![i].content = data]
    /\ DiskStep("Write", OK, localCAS)

\* blobFinalizer.Close of a staging file
StagingClose ==
    \E i \in DOMAIN staging, renameOK \in BOOLEAN :
        \E r \in {blobFinalizerClose(localCAS, staging[i].content, staging[i].digest,
                                     digestFunction, renameOK)} :
            /\ staging' = WithoutStaging(i)
            /\ DiskStep("Close", r.err, r.local)

\* Disk.BatchUpdateBlobs with one item
DiskBatchUpdate ==
    \E digest \in DiskDigests, data \in Blobs :
        \E r \in {DiskBatchUpdateBlobs(localCAS, digest, data, digestFunction)} :
            /\ DiskStep("BatchUpdateBlobs", r.err, r.local)
            /\ UNCHANGED staging

\* Disk.ImportBlob, called by the downloader with the body of a URI
DiskImportDownloaded ==
    \E i \in DiskIntegrities, resp \in DiskResponses, io \in DiskIOs :
        \E r \in {DownloaderFetchBlob(localCAS, <<resp>>, i, digestFunction, io)} :
            /\ DiskStep("ImportBlob", r.err, r.local)
            /\ UNCHANGED staging

NextDisk ==
    \/ DiskWriteStream
    \/ StagingWrite
    \/ StagingClose
    \/ DiskBatchUpdate
    \/ DiskImportDownloaded

SpecDisk == InitDisk /\ [][NextDisk]_vars

-----------------------------------------------------------------------------
(* Claims about the local Disk CAS *)

\* C4: every file at a final path of the local CAS has contents that hash,
\* under the digest function, to the hash the path is made of, and has the
\* size of the digest it was stored for; staged or partial content is never
\* found at a final path.
C4_FinalPathsHoldValidContent ==
    \A path \in DOMAIN localCAS :
        /\ localCAS[path].content \in Blobs
        /\ blobPath(HashOf(digestFunction, localCAS[path].content)) = path
        /\ SizeOf(localCAS[path].content) = localCAS[path].size

\* C4 witness: a staging file was closed and renamed to its final path while
\* another staging file holds partial content
C4_Witness ==
    /\ last.op = "Close" /\ last.err = OK
    /\ DOMAIN localCAS # {}
    /\ \E i \in DOMAIN staging : staging[i].content = Garbage

\* C32: writers racing to store the same digest never undo each other: a
\* blob that a writer has put in place at its final path is still there,
\* unchanged, after any step of any other writer, whether that step
\* succeeds, fails or cleans up.
C32_BlobsInPlaceStayInPlace ==
    [][\A path \in DOMAIN localCAS :
            /\ path \in DOMAIN localCAS'
            /\ localCAS'[path] = localCAS[path]]_vars

\* the part of C32 about the staging-rename writers: a Close of a staging
\* file, successful or not, leaves every blob in place
C32_StagingWritersKeepBlobs ==
    [][last'.op \in {"Close", "BatchUpdateBlobs", "Write", "WriteStream"}
            => \A path \in DOMAIN localCAS :
                    /\ path \in DOMAIN localCAS'
                    /\ localCAS'[path] = localCAS[path]]_vars

-----------------------------------------------------------------------------
(* SpecDownload: the direct downloader *)

\* number of URIs of an asset
MaxURIs == 2
\* number of FetchBlob calls explored by SpecDownload
MaxDownloads == 2

\* an integrity whose checksums belong to different blobs: no body matches
\* both
MixedIntegrity ==
    [a \in Algorithms |->
        IF a = digestFunction THEN HashOf(a, 1)
        ELSE IF a = "sha384" THEN HashOf(a, 2) ELSE NilHash]

DownloadIntegrities ==
    {EmptyIntegrity, IntegrityOf(1, {digestFunction}), IntegrityOf(2, {"sha384"}),
     IntegrityOf(2, {digestFunction, "sha384"}), MixedIntegrity}

\* the responses of a URI: none, a 404, a blob with or without its length, a
\* blob with another length than advertised, and a body that breaks off
DownloadResponses ==
    {NoResponse, [Serves(1) EXCEPT !.status = 404]}
    \cup UNION {{[Serves(b) EXCEPT !.contentLength = n] : n \in {0 - 1, SizeOf(b)}} : b \in Blobs}
    \cup {[Serves(1) EXCEPT !.contentLength = SmallSize + 1],
          [Serves(2) EXCEPT !.contentLength = SmallSize],
          [Serves(1) EXCEPT !.readOK = FALSE]}

DownloadURIs == UNION {[1..n -> DownloadResponses] : n \in 1..MaxURIs}

InitDownload ==
    /\ digestFunction = "sha256"
    /\ seed = NoCollision
    /\ goroutines = <<>>
    /\ digestHashAttributeName = NoAttributeName
    /\ NoWatcher
    /\ remoteConfigured = FALSE
    /\ \E i \in DownloadIntegrities : asset = [integrity |-> i, sizeHint |-> 0 - 1]
    /\ cache = EmptyCache
    /\ localCAS = EmptyDisk
    /\ remoteCAS = EmptyRemote
    /\ last = [op |-> "none", pc |-> "none", err |-> OK]
    /\ nSteps = 0
    /\ firstLearned = EmptyCache
    /\ lastWrites = {}
    /\ lastPut = [valid |-> FALSE]
    /\ nWrites = 0
    /\ manifestLeafs = <<>>
    /\ staging = <<>>
    /\ streams = <<>>
    /\ handle = NoHandle
    /\ lastRead = NoRead

\* Downloader.FetchBlob is called for the asset, whose URIs will answer with
\* resps: the request to the first URI is sent.  last is the call: pc (uri:
\* it waits for the URI i, returned), the issues so far and, once it has
\* returned, the error, the digest and the URI used
DownloaderFetch ==
    /\ nSteps < MaxDownloads
    /\ last.pc # "uri"
    /\ \E resps \in DownloadURIs :
          last' = [op |-> "FetchBlob", pc |-> "uri", i |-> 1, err |-> OK,
                   digest |-> UninitDigest, uriUsed |-> 0, uriIssues |-> <<>>,
                   resps |-> resps, before |-> localCAS]
    /\ nSteps' = nSteps + 1
    /\ UNCHANGED <<cfgVars, watchVars, streamVars, histVars, diskVars, cache, localCAS,
                   remoteCAS>>

\* the URI the call waits for has answered: downloadBlobFromURI validates
\* and imports the body, and the loop of FetchBlob goes on to the next URI
\* or FetchBlob returns
DownloaderTriesURI ==
    /\ last.pc = "uri"
    /\ \E io \in DiskIOs :
          \E r \in {downloadBlobFromURI(localCAS, last.resps[last.i], asset.integrity,
                                        digestFunction, io)} :
              \E tried \in {FetchBlobTriesURI(r, last.i, Len(last.resps), last.uriIssues)} :
                  /\ localCAS' = r.local
                  /\ last' = [last EXCEPT
                                !.pc = IF tried.done THEN "returned" ELSE "uri",
                                !.i = IF tried.done THEN @ ELSE @ + 1,
                                !.err = tried.err, !.digest = tried.digest,
                                !.uriUsed = tried.uriUsed, !.uriIssues = tried.uriIssues]
    /\ UNCHANGED <<cfgVars, watchVars, streamVars, histVars, diskVars, cache, remoteCAS,
                   nSteps>>

NextDownload == DownloaderFetch \/ DownloaderTriesURI

SpecDownload == InitDownload /\ [][NextDownload]_vars

-----------------------------------------------------------------------------
(* Claims about the direct downloader *)

\* the response carries a body that was read to its end
Delivered(resp) == resp.ok /\ resp.status = 200 /\ resp.readOK

\* the advertised content length differs from the length read
LengthMismatch(resp) == resp.contentLength >= 0 /\ SizeOf(resp.body) # resp.contentLength

\* the algorithms of the asset's integrity whose checksum the body fails
Mismatching(resp) ==
    {a \in Algorithms :
        asset.integrity[a] # NilHash /\ HashOf(a, resp.body) # asset.integrity[a]}

\* FetchBlob succeeded only with a body of the advertised length that
\* matches every checksum, and that body is what was imported
ImportedOnlyValidated ==
    last.err = OK =>
        LET resp == last.resps[last.uriUsed]
        IN  /\ Delivered(resp) /\ ~LengthMismatch(resp) /\ Mismatching(resp) = {}
            /\ ~IntegrityEmpty(asset.integrity)
            /\ blobPath(HashOf(digestFunction, resp.body)) \in DOMAIN localCAS
            /\ localCAS[blobPath(HashOf(digestFunction, resp.body))].content = resp.body

\* no file of the local CAS comes from a URI that failed
NothingImportedFromFailedURI ==
    \A path \in DOMAIN localCAS :
        \/ path \in DOMAIN last.before /\ localCAS[path] = last.before[path]
        \/ /\ last.err = OK
           /\ path = blobPath(HashOf(digestFunction, last.resps[last.uriUsed].body))

\* the failed attempts, for an asset that has an integrity, whose body was
\* delivered with a mismatch
MismatchedAttempts ==
    {j \in DOMAIN last.uriIssues :
        /\ ~IntegrityEmpty(asset.integrity)
        /\ Delivered(last.resps[j])
        /\ LengthMismatch(last.resps[j]) \/ Mismatching(last.resps[j]) # {}}

\* C5 as stated: a body is imported only if its length and every checksum
\* match, nothing is imported from a URI with a mismatch, and every attempt
\* with a mismatch fails with a checksum error that names an algorithm.
C5_MismatchNamesAlgorithm ==
    (last.op = "FetchBlob" /\ last.pc = "returned") =>
        /\ ImportedOnlyValidated
        /\ NothingImportedFromFailedURI
        /\ \A j \in MismatchedAttempts :
              /\ last.uriIssues[j].err = "invalid checksum"
              /\ last.uriIssues[j].algorithms # {}

\* C5 amended: a body is imported only if its length and every checksum
\* match and nothing is imported from a URI with a mismatch; an attempt whose
\* length mismatches fails with the content length error, which names no
\* algorithm; an attempt whose length matches and whose checksums do not
\* fails with a checksum error naming exactly the mismatching algorithms.
C5_ImportsOnlyValidated ==
    (last.op = "FetchBlob" /\ last.pc = "returned") =>
        /\ ImportedOnlyValidated
        /\ NothingImportedFromFailedURI
        /\ \A j \in MismatchedAttempts :
              IF LengthMismatch(last.resps[j])
              THEN /\ last.uriIssues[j].err = "unexpected content length"
                   /\ last.uriIssues[j].algorithms = {}
              ELSE /\ last.uriIssues[j].err = "invalid checksum"
                   /\ last.uriIssues[j].algorithms = Mismatching(last.resps[j])

\* C5 witness: the first URI delivered a body that fails a checksum, the
\* second URI's body was validated and imported
C5_Witness ==
    /\ last.op = "FetchBlob" /\ last.pc = "returned" /\ last.err = OK /\ last.uriUsed = 2
    /\ last.uriIssues[1].err = "invalid checksum"
    /\ last.resps[2].contentLength >= 0

\* the response is one that downloadBlobFromURI validates
Valid(resp) ==
    /\ ~IntegrityEmpty(asset.integrity)
    /\ Delivered(resp) /\ ~LengthMismatch(resp) /\ Mismatching(resp) = {}

\* C16: FetchBlob tries the URIs in list order and stops at the first that
\* succeeds: on success the URIs before the one used, and no others, have
\* failed, each for a reason of its own response (or of the file system), and
\* the digest is that of the used URI's body; FetchBlob fails only when every
\* URI was tried and failed, with the error that aggregates one issue per URI
C16_FirstWorkingURIWins ==
    (last.op = "FetchBlob" /\ last.pc = "returned") =>
        /\ IF last.err = OK
           THEN /\ last.uriUsed \in DOMAIN last.resps
                /\ Len(last.uriIssues) = last.uriUsed - 1
                /\ Valid(last.resps[last.uriUsed])
                /\ last.digest = DigestOfBlob(digestFunction, last.resps[last.uriUsed].body)
           ELSE /\ last.err = "unable to download asset from any uri"
                /\ Len(last.uriIssues) = Len(last.resps)
                /\ Uninitialized(last.digest)
        /\ \A j \in DOMAIN last.uriIssues :
              /\ last.uriIssues[j].err # OK
              /\ Valid(last.resps[j]) <=> last.uriIssues[j].err = "io"
              /\ IntegrityEmpty(asset.integrity)
                     => last.uriIssues[j].err = "no digests to validate"
              /\ (~last.resps[j].ok /\ ~IntegrityEmpty(asset.integrity))
                     => last.uriIssues[j].err = "http"
              /\ (last.resps[j].ok /\ last.resps[j].status # 200 /\ ~IntegrityEmpty(asset.integrity))
                     => last.uriIssues[j].err = "unexpected status code"

\* the first URI answered 404 and the second URI's body was imported
C16_Witness ==
    /\ last.op = "FetchBlob" /\ last.pc = "returned" /\ last.err = OK /\ last.uriUsed = 2
    /\ last.resps[1].status = 404
    /\ last.uriIssues[1].err = "unexpected status code"

-----------------------------------------------------------------------------
(* package cas: the byte stream reader of the remote CAS *)

\* The byte at offset i of the streamed blob is named i, so a run of bytes is
\* given by the offset of its first byte and its length.

\* forward seeks below this distance read and discard (1 MiB)
seekForwardLimit == 1048576
\* the buffer io.CopyN(io.Discard, ...) reads with
discardBufferSize == 8192
\* the buffer io.Copy reads with
copyBufferSize == 32768

\* size of the blob a handle streams: beyond two forward seek limits
StreamSize == 2 * seekForwardLimit + 6

Min(a, b) == IF a < b THEN a ELSE b

Max(a, b) == IF a < b THEN b ELSE a

\* the number of bytes the server sends for a read request on a blob of
\* size bytes: limit 0 means no limit
ServerTotal(size, offset, limit) ==
    IF limit = 0 THEN Max(0, size - offset) ELSE Min(limit, Max(0, size - offset))

\* Remote.ReadStream: a byteStreamReadCloser over a new server stream that
\* sends its bytes in chunks of chunk bytes and breaks after breakAt bytes
\* (never when breakAt is -1).  recvd is readFromRemote, out
\* is writtenToOut, buf is buf.Len(); eofs counts the reads that reported
\* EOF, late tells that a read after one that reported EOF did not, buffered
\* that a read left bytes in the buffer, cancels counts the calls of the
\* cancel function.
NewStream(owner, size, offset, limit, chunk) ==
    [owner |-> owner, start |-> offset, total |-> ServerTotal(size, offset, limit),
     limit |-> limit,
     chunk |-> chunk, breakAt |-> 0 - 1, cancelled |-> FALSE, cancels |-> 0,
     recvd |-> 0, out |-> 0, buf |-> 0, eof |-> FALSE, eofs |-> 0, late |-> FALSE,
     buffered |-> FALSE]

\* stream.Recv fails: the context is cancelled, or the connection broke
\* after breakAt bytes
RecvFails(s) == s.cancelled \/ (s.breakAt >= 0 /\ s.recvd >= s.breakAt)

\* byteStreamReadCloser.nilOrEOF
nilOrEOF(s) == IF s.eof /\ s.buf = 0 THEN "EOF" ELSE "nil"

\* what a Read returns: n, err, the offset in the blob of the first byte
\* handed out, and the reader afterwards
ReadReturns(n, err, before, s) ==
    [n |-> n, err |-> err, from |-> before.start + before.out,
     stream |-> [s EXCEPT !.eofs = IF err = "EOF" THEN @ + 1 ELSE @,
                          !.late = @ \/ (before.eofs > 0 /\ err # "EOF"),
                          !.buffered = @ \/ s.buf > 0]]

\* a Read that reports EOF together with the chunk that completes the
\* stream, whether or not part of the chunk went to the buffer
byteStreamReadEagerEOF(s, len) ==
    LET copyFromLastRead == Min(len, s.buf)
        s1 == [s EXCEPT !.buf = @ - copyFromLastRead, !.out = @ + copyFromLastRead]
        budget == len - copyFromLastRead
        readFromRemoteNow == Min(s.chunk, s.total - s.recvd)
        n == Min(budget, readFromRemoteNow)
    IN  IF budget = 0 THEN ReadReturns(len, nilOrEOF(s1), s, s1)
        ELSE IF s1.eof THEN ReadReturns(0, "EOF", s, s1)
        ELSE IF RecvFails(s1) THEN ReadReturns(0, "rpc", s, s1)
        ELSE IF s1.recvd = s1.total
        THEN ReadReturns(copyFromLastRead, "EOF", s, [s1 EXCEPT !.eof = TRUE])
        ELSE LET s2 == [s1 EXCEPT !.recvd = @ + readFromRemoteNow, !.out = @ + n,
                                  !.buf = @ + (readFromRemoteNow - n)]
             IN  IF s2.recvd = s2.total
                 THEN ReadReturns(copyFromLastRead + n, "EOF", s, [s2 EXCEPT !.eof = TRUE])
                 ELSE ReadReturns(copyFromLastRead + n, nilOrEOF(s2), s, s2)

\* byteStreamReadCloser.Read with a buffer of len bytes.  Recv returns the
\* next chunk, or io.EOF after the last chunk, or an error when the stream
\* is broken or its context is cancelled.
byteStreamRead(s, len) ==
    LET copyFromLastRead == Min(len, s.buf)
        s1 == [s EXCEPT !.buf = @ - copyFromLastRead, !.out = @ + copyFromLastRead]
        budget == len - copyFromLastRead
        readFromRemoteNow == Min(s.chunk, s.total - s.recvd)
        n == Min(budget, readFromRemoteNow)
    IN  IF budget = 0 THEN ReadReturns(len, nilOrEOF(s1), s, s1)
        ELSE IF s1.eof THEN ReadReturns(0, "EOF", s, s1)
        ELSE IF RecvFails(s1) THEN ReadReturns(0, "rpc", s, s1)
        ELSE IF s1.recvd = s1.total
        THEN ReadReturns(copyFromLastRead, nilOrEOF([s1 EXCEPT !.eof = TRUE]), s,
                         [s1 EXCEPT !.eof = TRUE])
        ELSE LET s2 == [s1 EXCEPT !.recvd = @ + readFromRemoteNow, !.out = @ + n,
                                  !.buf = @ + (readFromRemoteNow - n)]
             IN  ReadReturns(copyFromLastRead + n, nilOrEOF(s2), s, s2)

\* byteStreamReadCloser.Close, and the cancel function of the stream's
\* context
byteStreamClose(s) == [s EXCEPT !.cancelled = TRUE, !.cancels = @ + 1]

-----------------------------------------------------------------------------
(* package handle: the streaming file handle *)

\* The environment of a call is a record env: connectOK tells whether a
\* ReadStream call succeeds, chunk is the chunk size of a new stream.

\* NewStreamingFileHandle; offset, reader and cancel are the fields of its
\* byteStreamReadSeekCloser: reader is the index in streams of b.reader and
\* cancel the index of the stream whose cancel function b.cancel is (0 for
\* nil).  The fields that are not in the structs: closing is the position of
\* the Close call, closeFn the cancel function it loaded, closed tells that
\* Close has returned.
NewStreamingFileHandle(size, offset) ==
    [open |-> TRUE, size |-> size, readOffset |-> offset, sourceOffset |-> offset,
     offset |-> offset, reader |-> 0, cancel |-> 0, closing |-> "none", closeFn |-> 0,
     closed |-> FALSE]

\* what a call on the handle returns, and the handle and streams afterwards
HandleReturns(n, err, from, h, ss) ==
    [n |-> n, err |-> err, from |-> from, handle |-> h, streams |-> ss]

\* reconnectAtOffset of NewStreamingFileHandle: the reader and the cancel
\* function it returns are those of the new stream
reconnectAtOffset(h, ss, offset, env) ==
    IF ~env.connectOK THEN [err |-> "rpc", reader |-> 0, streams |-> ss]
    ELSE [err |-> "nil", reader |-> Len(ss) + 1,
          streams |-> Append(ss, NewStream("handle", h.size, offset, Max(0, h.size - offset),
                                           env.chunk))]

\* byteStreamReadSeekCloser.Read
sourceRead(h, ss, len, env) ==
    Only({
        IF c.err # "nil" THEN HandleReturns(0, c.err, 0, h, ss)
        ELSE Only({
            HandleReturns(r.n, r.err, r.from,
                          [h EXCEPT !.reader = c.reader,
                                    !.cancel = IF h.reader = 0 THEN c.reader ELSE @,
                                    !.offset = @ + r.n],
                          [c.streams EXCEPT ![c.reader] = r.stream])
            : r \in {byteStreamRead(c.streams[c.reader], len)}})
        : c \in {IF h.reader = 0 THEN reconnectAtOffset(h, ss, 0, env)
                 ELSE [err |-> "nil", reader |-> h.reader, streams |-> ss]}})

\* io.CopyN(io.Discard, b, d): read and discard d bytes
RECURSIVE DiscardN(_, _, _, _)
DiscardN(h, ss, d, env) ==
    IF d = 0 THEN HandleReturns(0, "nil", 0, h, ss)
    ELSE Only({
        IF r.err = "nil" THEN DiscardN(r.handle, r.streams, d - r.n, env)
        ELSE IF r.err = "EOF"
        THEN HandleReturns(0, IF r.n = d THEN "nil" ELSE "EOF", 0, r.handle, r.streams)
        ELSE HandleReturns(0, r.err, 0, r.handle, r.streams)
        : r \in {sourceRead(h, ss, Min(discardBufferSize, d), env)}})

\* the reconnect of byteStreamReadSeekCloser.Seek: the current stream is
\* cancelled, a new one is opened at the target
sourceReconnect(h, ss, targetOffset, env) ==
    LET ss1 == IF h.cancel = 0 THEN ss
               ELSE [ss EXCEPT ![h.cancel] = byteStreamClose(@)]
        h1 == IF h.cancel = 0 THEN h ELSE [h EXCEPT !.cancel = 0, !.reader = 0]
    IN  Only({
            IF c.err # "nil" THEN HandleReturns(0, c.err, 0, h1, ss1)
            ELSE HandleReturns(targetOffset, "nil", 0,
                               [h1 EXCEPT !.reader = c.reader, !.cancel = c.reader,
                                          !.offset = targetOffset],
                               c.streams)
            : c \in {reconnectAtOffset(h1, ss1, targetOffset, env)}})

\* byteStreamReadSeekCloser.Seek; n is the new offset
sourceSeek(h, ss, offset, whence, env) ==
    LET targetOffset ==
            IF whence = "start" THEN offset
            ELSE IF whence = "current" THEN h.offset + offset
            ELSE h.size + offset
    IN  IF whence \notin {"start", "current", "end"}
        THEN HandleReturns(0, "unexpected EOF", 0, h, ss)
        ELSE IF targetOffset < 0 \/ targetOffset > h.size
        THEN HandleReturns(0, "unexpected EOF", 0, h, ss)
        ELSE IF targetOffset = h.offset THEN HandleReturns(h.offset, "nil", 0, h, ss)
        ELSE IF targetOffset > h.offset /\ targetOffset - h.offset < seekForwardLimit
        THEN Only({
            IF r.err # "nil" THEN HandleReturns(0, r.err, 0, r.handle, r.streams)
            ELSE HandleReturns(targetOffset, "nil", 0,
                               [r.handle EXCEPT !.offset = targetOffset], r.streams)
            : r \in {DiscardN(h, ss, targetOffset - h.offset, env)}})
        ELSE sourceReconnect(h, ss, targetOffset, env)

\* streamingFileHandle.ReadAt with a buffer of len bytes
handleReadAt(h, ss, len, off, env) ==
    Only({
        IF sk.err # "nil" THEN HandleReturns(0, sk.err, 0, sk.handle, sk.streams)
        ELSE Only({
            HandleReturns(r.n, r.err, r.from,
                          [r.handle EXCEPT !.sourceOffset = @ + r.n], r.streams)
            : r \in {sourceRead([sk.handle EXCEPT !.sourceOffset = off], sk.streams, len,
                                env)}})
        : sk \in {IF off # h.sourceOffset THEN sourceSeek(h, ss, off, "start", env)
                  ELSE HandleReturns(off, "nil", 0, h, ss)}})

\* a Close that cancels the stream and keeps the cancel function
handleCloseKeepingCancel(h, ss) ==
    HandleReturns(0, "nil", 0, [h EXCEPT !.closed = TRUE],
                  IF h.cancel = 0 THEN ss ELSE [ss EXCEPT ![h.cancel] = byteStreamClose(@)])

\* streamingFileHandle.Close: byteStreamReadSeekCloser.Close, with no other
\* call on the handle in progress
handleClose(h, ss) ==
    IF h.cancel = 0 THEN HandleReturns(0, "nil", 0, [h EXCEPT !.closed = TRUE], ss)
    ELSE HandleReturns(0, "nil", 0, [h EXCEPT !.cancel = 0, !.reader = 0, !.closed = TRUE],
                       [ss EXCEPT ![h.cancel] = byteStreamClose(@)])

\* The operations of the handle step by step.  Read, ReadAt and Seek hold
\* streamingFileHandle.mux from their first step to their return; Close
\* takes no lock, so each of its reads and writes of b.reader and b.cancel
\* runs between any two of theirs.  The accesses are not synchronised: a
\* read sees the value of the field at that moment, and a statement that
\* names a field again after testing it (`if b.cancel != nil { b.cancel() }`)
\* either reads it again or uses the value it tested, as the build decides.
\* The operation that holds the lock is a record req: op, len, off and
\* whence are the call, pc is the step it is at, seeking tells that it is
\* inside byteStreamReadSeekCloser.Seek, target is Seek's targetOffset,
\* discard the bytes io.CopyN has still to discard, fn the cancel function
\* Seek tested, pending the stream a reconnect returned that is not yet
\* stored in b.reader and b.cancel, stream the reader that b.reader.Read(p)
\* was called on.

\* no operation holds streamingFileHandle.mux
Unlocked ==
    [pc |-> "idle", op |-> "none", len |-> 0, off |-> 0, whence |-> "start",
     seeking |-> FALSE, target |-> 0, discard |-> 0, fn |-> 0, pending |-> 0,
     stream |-> 0]

\* the operation returns n and err and releases the lock
Returned(h, ss, req, n, err, from) ==
    [handle |-> h, streams |-> ss, request |-> Unlocked, returned |-> TRUE,
     result |-> [op |-> req.op, len |-> req.len, off |-> req.off, whence |-> req.whence,
                 n |-> n, err |-> err, from |-> from]]

\* the operation goes on at req.pc
Continues(h, ss, req) ==
    [handle |-> h, streams |-> ss, request |-> req, returned |-> FALSE, result |-> NoRead]

\* the operation calls a method of a nil reader or a nil cancel function:
\* the process panics
Panicked(h, ss, req) ==
    [handle |-> h, streams |-> ss, request |-> [req EXCEPT !.pc = "panicked"],
     returned |-> TRUE,
     result |-> [op |-> req.op, len |-> req.len, off |-> req.off, whence |-> req.whence,
                 n |-> 0, err |-> "panic", from |-> 0]]

\* byteStreamReadSeekCloser.Seek has returned err and newOffset to the
\* operation that called it: Read and ReadAt set sourceOffset and go on to
\* source.Read, Seek sets both offsets and returns
seekReturned(h, ss, req, err, newOffset) ==
    IF err # "nil" THEN Returned(h, ss, req, 0, err, 0)
    ELSE IF req.op = "Seek"
    THEN Returned([h EXCEPT !.readOffset = newOffset, !.sourceOffset = newOffset], ss, req,
                  newOffset, "nil", 0)
    ELSE Continues([h EXCEPT !.sourceOffset = req.off], ss,
                   [req EXCEPT !.pc = "connect", !.seeking = FALSE])

\* byteStreamReadSeekCloser.Seek up to its first use of b.reader and
\* b.cancel
sourceSeekBegins(h, ss, req, offset, whence) ==
    LET targetOffset ==
            IF whence = "start" THEN offset
            ELSE IF whence = "current" THEN h.offset + offset
            ELSE h.size + offset
    IN  IF whence \notin {"start", "current", "end"}
        THEN seekReturned(h, ss, req, "unexpected EOF", 0)
        ELSE IF targetOffset < 0 \/ targetOffset > h.size
        THEN seekReturned(h, ss, req, "unexpected EOF", 0)
        ELSE IF targetOffset = h.offset THEN seekReturned(h, ss, req, "nil", h.offset)
        ELSE IF targetOffset > h.offset /\ targetOffset - h.offset < seekForwardLimit
        THEN Continues(h, ss, [req EXCEPT !.pc = "connect", !.seeking = TRUE,
                                          !.target = targetOffset,
                                          !.discard = targetOffset - h.offset])
        ELSE Continues(h, ss, [req EXCEPT !.pc = "reconnect", !.seeking = TRUE,
                                          !.target = targetOffset])

\* streamingFileHandle.ReadAt from the lock to the first use of the reader
handleReadAtBegins(h, ss, len, off) ==
    LET req == [Unlocked EXCEPT !.op = "ReadAt", !.len = len, !.off = off]
    IN  IF off # h.sourceOffset THEN sourceSeekBegins(h, ss, req, off, "start")
        ELSE Continues(h, ss, [req EXCEPT !.pc = "connect"])

\* streamingFileHandle.Read from the lock to the first use of the reader
handleReadBegins(h, ss, len) ==
    LET req == [Unlocked EXCEPT !.op = "Read", !.len = len, !.off = h.readOffset]
    IN  IF h.readOffset # h.sourceOffset
        THEN sourceSeekBegins(h, ss, req, h.readOffset, "start")
        ELSE Continues(h, ss, [req EXCEPT !.pc = "connect"])

\* streamingFileHandle.Seek from the lock to the first use of the reader
handleSeekBegins(h, ss, offset, whence) ==
    LET req == [Unlocked EXCEPT !.op = "Seek", !.off = offset, !.whence = whence]
    IN  sourceSeekBegins(h, ss, req,
                         IF whence = "current" /\ h.readOffset # h.sourceOffset
                         THEN offset + (h.readOffset - h.sourceOffset) ELSE offset,
                         whence)

\* len(p) of the byteStreamReadSeekCloser.Read in progress: the caller's
\* buffer, or what io.CopyN(io.Discard, b, d) asks for
readLen(req) == IF req.seeking THEN Min(discardBufferSize, req.discard) ELSE req.len

\* byteStreamReadSeekCloser.Read has returned n and err: to io.CopyN inside
\* Seek, which reads on, ends the seek or fails it, or to Read and ReadAt,
\* which add n to their offsets and return
sourceReadReturned(h, ss, req, n, err, from) ==
    IF ~req.seeking
    THEN Returned([h EXCEPT !.sourceOffset = @ + n,
                            !.readOffset = IF req.op = "Read" THEN @ + n ELSE @],
                  ss, req, n, err, from)
    ELSE IF err = "nil" /\ n < req.discard
    THEN Continues(h, ss, [req EXCEPT !.pc = "connect", !.discard = @ - n])
    ELSE IF err \in {"nil", "EOF"} /\ n = req.discard
    THEN seekReturned([h EXCEPT !.offset = req.target], ss, req, "nil", req.target)
    ELSE seekReturned(h, ss, req, err, 0)

\* byteStreamReadSeekCloser.Read tests b.reader and calls
\* reconnectAtOffset(0) when it is nil
sourceConnects(h, ss, req, env) ==
    IF h.reader # 0 THEN Continues(h, ss, [req EXCEPT !.pc = "load"])
    ELSE Only({
        IF c.err # "nil" THEN sourceReadReturned(h, ss, req, 0, c.err, 0)
        ELSE Continues(h, c.streams, [req EXCEPT !.pc = "store", !.pending = c.reader])
        : c \in {reconnectAtOffset(h, ss, 0, env)}})

\* the reconnect of byteStreamReadSeekCloser.Seek tests b.cancel
sourceSeekTests(h, ss, req) ==
    IF h.cancel # 0 THEN Continues(h, ss, [req EXCEPT !.pc = "seek-cancel", !.fn = h.cancel])
    ELSE Continues(h, ss, [req EXCEPT !.pc = "seek-dial"])

\* the cancel function that `b.cancel()` calls after the test of b.cancel:
\* the field read again (reload), or the value tested
cancelCalled(h, tested, reload) == IF reload THEN h.cancel ELSE tested

\* Seek calls b.cancel(): the call of a nil function panics
sourceSeekCancels(h, ss, req, reload) ==
    LET fn == cancelCalled(h, req.fn, reload)
    IN  IF fn = 0 THEN Panicked(h, ss, req)
        ELSE Continues(h, [ss EXCEPT ![fn] = byteStreamClose(@)],
                       [req EXCEPT !.pc = "seek-nil-cancel", !.fn = 0])

\* Seek assigns nil to b.cancel, and then to b.reader
sourceSeekClears(h, ss, req) ==
    IF req.pc = "seek-nil-cancel"
    THEN Continues([h EXCEPT !.cancel = 0], ss, [req EXCEPT !.pc = "seek-nil-reader"])
    ELSE Continues([h EXCEPT !.reader = 0], ss, [req EXCEPT !.pc = "seek-dial"])

\* Seek calls reconnectAtOffset with the target
sourceReconnects(h, ss, req, env) ==
    Only({
        IF c.err # "nil" THEN seekReturned(h, ss, req, c.err, 0)
        ELSE Continues(h, c.streams, [req EXCEPT !.pc = "seek-store", !.pending = c.reader])
        : c \in {reconnectAtOffset(h, ss, req.target, env)}})

\* b.reader is assigned the reader that reconnectAtOffset returned
sourceStores(h, ss, req) ==
    Continues([h EXCEPT !.reader = req.pending], ss,
              [req EXCEPT !.pc = IF req.pc = "seek-store" THEN "seek-store-cancel"
                                 ELSE "store-cancel"])

\* b.cancel is assigned the cancel function that reconnectAtOffset returned;
\* Seek assigns b.offset as well and returns
sourceStoresCancel(h, ss, req) ==
    IF req.pc = "seek-store-cancel"
    THEN seekReturned([h EXCEPT !.cancel = req.pending, !.offset = req.target], ss,
                      [req EXCEPT !.pending = 0], "nil", req.target)
    ELSE Continues([h EXCEPT !.cancel = req.pending], ss,
                   [req EXCEPT !.pc = "load", !.pending = 0])

\* b.reader.Read(p) is called: the method call on a nil interface panics
sourceLoads(h, ss, req) ==
    IF h.reader = 0 THEN Panicked(h, ss, req)
    ELSE Continues(h, ss, [req EXCEPT !.pc = "recv", !.stream = h.reader])

\* the reader's Read returns and b.offset is advanced
sourceRecvs(h, ss, req) ==
    Only({
        sourceReadReturned([h EXCEPT !.offset = @ + r.n],
                           [ss EXCEPT ![req.stream] = r.stream],
                           [req EXCEPT !.stream = 0], r.n, r.err, r.from)
        : r \in {byteStreamRead(ss[req.stream], readLen(req))}})

\* what a step of Close leaves: the handle, the streams, and whether the
\* process panicked
Closes(h, ss, panicked) == [handle |-> h, streams |-> ss, panicked |-> panicked]

\* byteStreamReadSeekCloser.Close tests b.cancel, and returns when it is nil
closeTests(h, ss) ==
    IF h.cancel # 0 THEN Closes([h EXCEPT !.closing = "cancel", !.closeFn = h.cancel], ss, FALSE)
    ELSE Closes([h EXCEPT !.closing = "returned", !.closed = TRUE], ss, FALSE)

\* Close calls b.cancel(): the call of a nil function panics
closeCancels(h, ss, reload) ==
    LET fn == cancelCalled(h, h.closeFn, reload)
    IN  IF fn = 0 THEN Closes([h EXCEPT !.closing = "panicked"], ss, TRUE)
        ELSE Closes([h EXCEPT !.closing = "nil-cancel", !.closeFn = 0],
                    [ss EXCEPT ![fn] = byteStreamClose(@)], FALSE)

\* Close assigns nil to b.cancel
closeClearsCancel(h, ss) ==
    Closes([h EXCEPT !.cancel = 0, !.closing = "nil-reader"], ss, FALSE)

\* Close assigns nil to b.reader and returns
closeClearsReader(h, ss) ==
    Closes([h EXCEPT !.reader = 0, !.closing = "returned", !.closed = TRUE], ss, FALSE)

\* io.Copy(writer, reader) from one wait for the server to the next:
\* reader.Read with the copy buffer and writer.Write of what it returned,
\* again as long as the next Read needs no message of the server; written
\* counts the bytes copied
RECURSIVE CopyToNextRecv(_, _)
CopyToNextRecv(s, written) ==
    Only({
        IF r.err = "nil" /\ (r.stream.buf >= copyBufferSize \/ r.stream.eof)
        THEN CopyToNextRecv(r.stream, written + r.n)
        ELSE [n |-> written + r.n, err |-> r.err, stream |-> r.stream]
        : r \in {byteStreamRead(s, copyBufferSize)}})

\* the streaming branch of Prefetcher.casRemoteToLocalTransferPart up to
\* io.Copy: ReadStream opens a stream of the whole blob, WriteStream creates
\* the staging file; the deferred reader.Close() runs when WriteStream fails
transferStreamBegins(ss, stg, digest, env) ==
    IF ~env.connectOK
    THEN [err |-> "rpc", streams |-> ss, staging |-> stg, stream |-> 0]
    ELSE Only({
        IF created.err # OK
        THEN [err |-> created.err,
              streams |-> Append(ss, byteStreamClose(
                                         NewStream("transfer", digest.size, 0, 0, env.chunk))),
              staging |-> stg, stream |-> 0]
        ELSE [err |-> OK,
              streams |-> Append(ss, [NewStream("transfer", digest.size, 0, 0, env.chunk)
                                         EXCEPT !.breakAt = env.breakAt]),
              staging |-> created.staging, stream |-> Len(ss) + 1]
        : created \in {stagingFile(stg, digest,
                                   [HealthyStaging EXCEPT !.createOK = env.writeOK])}})

\* the streaming branch of Prefetcher.casRemoteToLocalTransferPart from
\* io.Copy on: the copy goes on to its next wait, or it ends, the length is
\* compared, and the deferred writer.Close() (validate, rename, remove the
\* staging file) and reader.Close() run.  blob is what the server streams,
\* i the stream, written the bytes copied so far.
transferStreamCopies(ss, stg, local, digest, alg, blob, i, written) ==
    Only({
        IF copied.err = "nil"
        THEN [pc |-> "copy", n |-> copied.n, err |-> OK,
              streams |-> [ss EXCEPT ![i] = copied.stream], staging |-> stg,
              local |-> local]
        ELSE Only({
            [pc |-> "returned", n |-> copied.n,
             err |-> IF copied.err # "EOF" THEN copied.err
                     ELSE IF copied.n # digest.size THEN "expected to read" ELSE OK,
             streams |-> [ss EXCEPT ![i] = byteStreamClose(copied.stream)],
             staging |-> closed.staging, local |-> closed.local]
            : closed \in {blobFinalizerCloseFile(
                              [stg EXCEPT ![Len(stg)].content =
                                   IF copied.n = digest.size THEN blob ELSE Garbage],
                              Len(stg), local, alg, HealthyStaging)}})
        : copied \in {CopyToNextRecv(ss[i], written)}})

-----------------------------------------------------------------------------
(* Specification of a streaming file handle and of streamed transfers *)

\* number of operations in a behaviour
MaxStreamSteps == 3

\* number of server streams in a behaviour
MaxStreams == 4

\* an offset further than two forward seek limits from the start, three
\* bytes before the end
Far == 2 * seekForwardLimit + 3

\* buffer lengths of reads
ReadLens == {2}

\* offsets of positional reads
ReadOffsets == {0, 3, Far, StreamSize}

\* the calls of Seek: offset and whence, one of them with a whence that is
\* none of io.SeekStart, io.SeekCurrent and io.SeekEnd
Seeks ==
    {<<4, "start">>, <<2, "current">>, <<0 - 2, "end">>, <<1, "end">>, <<0, "other">>}

\* chunk sizes of the server's messages to a handle
HandleChunks == {1, 5}

HandleEnvs == [connectOK : BOOLEAN, chunk : HandleChunks]

\* the transfer's server sends two or four messages, and the connection
\* holds or breaks in the middle
TransferEnvs ==
    [connectOK : BOOLEAN, writeOK : BOOLEAN,
     chunk : {byteStreamThreshold \div 4, byteStreamThreshold \div 2},
     breakAt : {0 - 1, byteStreamThreshold \div 2}]

\* the transferred blob: the smallest that is streamed
TransferBlob == 2

\* no transfer is in progress
NoStreamTransfer == [op |-> "none", pc |-> "idle", err |-> OK]

InitStream ==
    /\ digestFunction = "sha256"
    /\ seed = NoCollision
    /\ goroutines = <<>>
    /\ digestHashAttributeName = NoAttributeName
    /\ queue = [kind |-> "none"]
    /\ manifestFile = [kind |-> "none"]
    /\ watcher = [kind |-> "none"]
    /\ fsRoot = [kind |-> "none"]
    /\ kernel = [kind |-> "none"]
    /\ request = Unlocked
    /\ remoteConfigured = TRUE
    /\ asset = [integrity |-> EmptyIntegrity, sizeHint |-> 0 - 1]
    /\ cache = EmptyCache
    /\ localCAS = EmptyDisk
    /\ remoteCAS = EmptyRemote
    /\ last = NoStreamTransfer
    /\ nSteps = 0
    /\ firstLearned = EmptyCache
    /\ lastWrites = {}
    /\ lastPut = [valid |-> FALSE]
    /\ nWrites = 0
    /\ manifestLeafs = <<>>
    /\ staging = <<>>
    /\ streams = <<>>
    /\ handle = NewStreamingFileHandle(StreamSize, 0)
    /\ lastRead = NoRead

StreamStep == UNCHANGED <<cfgVars, watchVars, histVars, diskVars, cache, localCAS, remoteCAS, last>>

\* what a step on the handle leaves alone
HandleStep ==
    UNCHANGED <<cfgVars, histVars, diskVars, cache, localCAS, remoteCAS, last, manifestFile,
                watcher, fsRoot, kernel>>

\* the handle, its streams and the operation that holds the lock after a
\* step with the outcome r
HandleSteps(r) ==
    /\ handle' = r.handle
    /\ streams' = r.streams
    /\ request' = r.request
    /\ lastRead' = IF r.returned THEN r.result ELSE lastRead

\* a call begins on a handle that was not closed
HandleBegins ==
    /\ nSteps < MaxStreamSteps
    /\ Len(streams) < MaxStreams
    /\ request.pc = "idle"
    /\ ~handle.closed
    /\ nSteps' = nSteps + 1
    /\ HandleStep

\* leafHandle.Read: streamingFileHandle.ReadAt(p, off) with len(p) = len
\* takes the lock
HandleReadAt ==
    /\ HandleBegins
    /\ \E len \in ReadLens, off \in ReadOffsets \cup {handle.sourceOffset} :
          \E r \in {handleReadAtBegins(handle, streams, len, off)} : HandleSteps(r)

\* streamingFileHandle.Read(p) with len(p) = len takes the lock
HandleRead ==
    /\ HandleBegins
    /\ \E len \in ReadLens :
          \E r \in {handleReadBegins(handle, streams, len)} : HandleSteps(r)

\* streamingFileHandle.Seek(offset, whence) takes the lock
HandleSeek ==
    /\ HandleBegins
    /\ \E s \in Seeks :
          \E r \in {handleSeekBegins(handle, streams, s[1], s[2])} : HandleSteps(r)

\* the operation that holds the lock tests b.reader and connects
HandleConnects ==
    /\ request.pc = "connect"
    /\ \E env \in HandleEnvs :
          \E r \in {sourceConnects(handle, streams, request, env)} : HandleSteps(r)
    /\ UNCHANGED nSteps
    /\ HandleStep

\* the Seek of the operation that holds the lock tests b.cancel
HandleSeekTests ==
    /\ request.pc = "reconnect"
    /\ \E r \in {sourceSeekTests(handle, streams, request)} : HandleSteps(r)
    /\ UNCHANGED nSteps
    /\ HandleStep

\* the Seek of the operation that holds the lock cancels the stream
HandleSeekCancels ==
    /\ request.pc = "seek-cancel"
    /\ \E reload \in BOOLEAN :
          \E r \in {sourceSeekCancels(handle, streams, request, reload)} : HandleSteps(r)
    /\ UNCHANGED nSteps
    /\ HandleStep

\* the Seek of the operation that holds the lock sets b.cancel or b.reader
\* to nil
HandleSeekClears ==
    /\ request.pc \in {"seek-nil-cancel", "seek-nil-reader"}
    /\ \E r \in {sourceSeekClears(handle, streams, request)} : HandleSteps(r)
    /\ UNCHANGED nSteps
    /\ HandleStep

\* the Seek of the operation that holds the lock reconnects
HandleReconnects ==
    /\ request.pc = "seek-dial"
    /\ \E env \in HandleEnvs :
          \E r \in {sourceReconnects(handle, streams, request, env)} : HandleSteps(r)
    /\ UNCHANGED nSteps
    /\ HandleStep

\* the operation that holds the lock stores the new reader
HandleStores ==
    /\ request.pc \in {"store", "seek-store"}
    /\ \E r \in {sourceStores(handle, streams, request)} : HandleSteps(r)
    /\ UNCHANGED nSteps
    /\ HandleStep

\* the operation that holds the lock stores the cancel function of the new
\* reader
HandleStoresCancel ==
    /\ request.pc \in {"store-cancel", "seek-store-cancel"}
    /\ \E r \in {sourceStoresCancel(handle, streams, request)} : HandleSteps(r)
    /\ UNCHANGED nSteps
    /\ HandleStep

\* the operation that holds the lock calls b.reader.Read(p)
HandleLoads ==
    /\ request.pc = "load"
    /\ \E r \in {sourceLoads(handle, streams, request)} : HandleSteps(r)
    /\ UNCHANGED nSteps
    /\ HandleStep

\* the reader's Read returns to the operation that holds the lock
HandleRecvs ==
    /\ request.pc = "recv"
    /\ \E r \in {sourceRecvs(handle, streams, request)} : HandleSteps(r)
    /\ UNCHANGED nSteps
    /\ HandleStep

\* the handle, its streams and the operations after a step of Close with
\* the outcome r: a panic ends every goroutine of the process
CloseSteps(r) ==
    /\ handle' = r.handle
    /\ streams' = r.streams
    /\ request' = IF r.panicked THEN [request EXCEPT !.pc = "panicked"] ELSE request
    /\ lastRead' = IF r.handle.closed THEN [op |-> "Close"] ELSE lastRead
    /\ HandleStep

\* leafHandle.Release: streamingFileHandle.Close is called, without the
\* lock, and tests b.cancel
HandleClose ==
    /\ nSteps < MaxStreamSteps
    /\ handle.closing = "none"
    /\ request.pc # "panicked"
    /\ \E r \in {closeTests(handle, streams)} : CloseSteps(r)
    /\ nSteps' = nSteps + 1

\* Close cancels the stream
HandleCloseCancels ==
    /\ handle.closing = "cancel"
    /\ request.pc # "panicked"
    /\ \E reload \in BOOLEAN :
          \E r \in {closeCancels(handle, streams, reload)} : CloseSteps(r)
    /\ UNCHANGED nSteps

\* Close sets b.cancel to nil
HandleCloseClearsCancel ==
    /\ handle.closing = "nil-cancel"
    /\ request.pc # "panicked"
    /\ \E r \in {closeClearsCancel(handle, streams)} : CloseSteps(r)
    /\ UNCHANGED nSteps

\* Close sets b.reader to nil and returns
HandleCloseClearsReader ==
    /\ handle.closing = "nil-reader"
    /\ request.pc # "panicked"
    /\ \E r \in {closeClearsReader(handle, streams)} : CloseSteps(r)
    /\ UNCHANGED nSteps

\* the connection of the handle's stream breaks
StreamBreaks ==
    /\ nSteps < MaxStreamSteps
    /\ request.pc # "panicked"
    /\ handle.reader # 0
    /\ streams[handle.reader].breakAt < 0
    /\ streams' = [streams EXCEPT ![handle.reader].breakAt = streams[handle.reader].recvd]
    /\ nSteps' = nSteps + 1
    /\ UNCHANGED <<handle, request, lastRead>>
    /\ HandleStep

\* what a step of a transfer leaves alone
TransferStreamStep ==
    UNCHANGED <<cfgVars, histVars, watchVars, cache, remoteCAS, handle, lastRead>>

\* a large blob is transferred from the remote CAS to the local CAS: the
\* stream and the staging file are opened
TransferStream ==
    /\ nSteps < MaxStreamSteps
    /\ Len(streams) < MaxStreams
    /\ request.pc # "panicked"
    /\ last.pc # "copy"
    /\ \E env \in TransferEnvs :
          \E r \in {transferStreamBegins(streams, staging,
                                         DigestOfBlob(digestFunction, TransferBlob), env)} :
              /\ streams' = r.streams
              /\ staging' = r.staging
              /\ last' = [op |-> "transfer", pc |-> IF r.err = OK THEN "copy" ELSE "returned",
                          err |-> r.err, n |-> 0, stream |-> r.stream]
    /\ nSteps' = nSteps + 1
    /\ UNCHANGED localCAS
    /\ TransferStreamStep

\* the transfer copies what the server sent, and returns when the stream
\* ends or fails
TransferCopies ==
    /\ last.pc = "copy"
    /\ request.pc # "panicked"
    /\ \E r \in {transferStreamCopies(streams, staging, localCAS,
                                      DigestOfBlob(digestFunction, TransferBlob),
                                      digestFunction, TransferBlob, last.stream, last.n)} :
          /\ streams' = r.streams
          /\ staging' = r.staging
          /\ localCAS' = r.local
          /\ last' = [last EXCEPT !.pc = r.pc, !.err = r.err, !.n = r.n]
    /\ UNCHANGED nSteps
    /\ TransferStreamStep

NextStream ==
    \/ HandleReadAt
    \/ HandleRead
    \/ HandleSeek
    \/ HandleConnects
    \/ HandleSeekTests
    \/ HandleSeekCancels
    \/ HandleSeekClears
    \/ HandleReconnects
    \/ HandleStores
    \/ HandleStoresCancel
    \/ HandleLoads
    \/ HandleRecvs
    \/ HandleClose
    \/ HandleCloseCancels
    \/ HandleCloseClearsCancel
    \/ HandleCloseClearsReader
    \/ StreamBreaks
    \/ TransferStream
    \/ TransferCopies

SpecStream == InitStream /\ [][NextStream]_vars

-----------------------------------------------------------------------------
(* Claims about streaming reads *)

\* C8: a positional read of len bytes at offset off that succeeds yields the
\* bytes of the blob from off to min(off + len, size), whatever reads came
\* before on the handle
C8_ReadAtYieldsBytesAtOffset ==
    (lastRead.op = "ReadAt" /\ lastRead.err \in {"nil", "EOF"})
        => /\ lastRead.n = Min(lastRead.len, StreamSize - lastRead.off)
           /\ lastRead.n > 0 => lastRead.from = lastRead.off

\* C9 as stated: a reader reports EOF in one read only, and only with its
\* buffer drained
C9_EOFExactlyOnce ==
    \A i \in DOMAIN streams :
        /\ streams[i].eofs <= 1
        /\ streams[i].eofs > 0 => streams[i].buf = 0 /\ streams[i].out = streams[i].recvd

\* C9: a reader reports EOF only when the stream has ended and every byte
\* received was handed out, so never with bytes left in the buffer; every
\* read after one that reported EOF reports EOF again
C9_EOFAfterDrain ==
    \A i \in DOMAIN streams :
        /\ streams[i].eofs > 0
               => /\ streams[i].eof
                  /\ streams[i].buf = 0
                  /\ streams[i].out = streams[i].recvd
                  /\ streams[i].recvd = streams[i].total
        /\ ~streams[i].late

\* a reader that used its buffer was read twice at the end of its stream
C9_Witness ==
    \E i \in DOMAIN streams :
        streams[i].buffered /\ streams[i].eofs >= 2 /\ streams[i].out > 0

\* C10: once the handle is closed and no operation on it is in progress,
\* every server stream opened for it is cancelled, and a transfer that
\* returned leaves its stream cancelled however it ended
C10_CloseCancelsEveryStream ==
    \A i \in DOMAIN streams :
        /\ (handle.closed /\ request.pc = "idle" /\ streams[i].owner = "handle")
               => streams[i].cancelled
        /\ (streams[i].owner = "transfer" /\ ~(last.pc = "copy" /\ last.stream = i))
               => streams[i].cancelled

\* the part of C10 that holds: a transfer that returned leaves its stream
\* cancelled however it ended
C10_TransferCancelsItsStream ==
    \A i \in DOMAIN streams :
        (streams[i].owner = "transfer" /\ ~(last.pc = "copy" /\ last.stream = i))
            => streams[i].cancelled

-----------------------------------------------------------------------------
(* package integrity and package remoteasset: the checksum of a request *)

\* the first checksum of the integrity in the given order of algorithms
RECURSIVE FirstChecksum(_, _, _)
FirstChecksum(i, order, n) ==
    IF n > Len(order) THEN [checksum |-> [algorithm |-> NoAlgorithm, hash |-> NilHash],
                            ok |-> FALSE]
    ELSE IF ChecksumForAlgorithm(i, order[n]).ok THEN ChecksumForAlgorithm(i, order[n])
    ELSE FirstChecksum(i, order, n + 1)

\* a BestSingleChecksum that prefers Blake3 to SHA256
BestSingleChecksumFastest(i, alg) ==
    FirstChecksum(i, <<alg, "blake3", "sha256", "sha512", "sha384">>, 1)

\* Integrity.BestSingleChecksum
BestSingleChecksum(i, alg) ==
    FirstChecksum(i, <<alg, "sha256", "blake3", "sha512", "sha384">>, 1)

\* Checksum.ToSRI: the name of the algorithm, "-", the hash in base64
ToSRI(checksum) == <<checksum.algorithm, "-", checksum.hash>>

\* the name of the qualifier that carries a header of the URI with index i
\* (fmt.Sprintf("http_header_url:%d:%s", i, k)); the other names are tuples
\* of one string
HeaderQualifier(i, k) == <<"http_header_url", i, k>>

\* the qualifiers of an asset: none, one, one named checksum.sri, and one
\* with the name of a header qualifier
AssetQualifiers ==
    {[name \in {} |-> <<>>], [name \in {<<"resource_type">>} |-> <<"application/gzip">>],
     [name \in {<<"checksum.sri">>} |-> <<"md5", "-", 0>>],
     [name \in {HeaderQualifier(0, "Authorization")} |-> <<"Digest">>]}

\* strings.Join(v, ","): the values with a comma between them
RECURSIVE Join(_)
Join(v) == IF Len(v) <= 1 THEN v ELSE <<v[1], ",">> \o Join(Tail(v))

\* the headers the credential helper answers with for the URIs of an asset,
\* in the order of the URIs: a map from header names to values for each URI
\* (empty when the helper fails); no URI, one URI with a header, two URIs of
\* which the second has a header with two values
NoHeaders == [name \in {} |-> <<>>]

HelperHeaders ==
    {<<>>, <<[name \in {"Authorization"} |-> <<"Basic">>]>>,
     <<NoHeaders, [name \in {"Authorization"} |-> <<"Basic", "Bearer">>]>>}

\* RemoteAssetService.authenticate: the qualifiers of the asset and one
\* qualifier for every header of every URI, which replaces a qualifier of
\* the same name
authenticate(qualifiers, headers) ==
    LET added == UNION {{HeaderQualifier(i - 1, k) : k \in DOMAIN headers[i]}
                            : i \in DOMAIN headers}
    IN  [name \in DOMAIN qualifiers \cup added |->
            IF name \in added THEN Join(headers[name[2] + 1][name[3]])
            ELSE qualifiers[name]]

\* protoFetchBlobRequest: the qualifiers of the asset and the qualifier
\* checksum.sri, as the set of the request's qualifiers; without a checksum
\* the function panics
protoFetchBlobRequest(i, qualifiers, alg) ==
    Only({
        IF ~best.ok THEN [panic |-> TRUE, function |-> alg, qualifiers |-> {}]
        ELSE LET uniqueQualifiers ==
                    [name \in DOMAIN qualifiers \cup {<<"checksum.sri">>} |->
                        IF name = <<"checksum.sri">> THEN ToSRI(best.checksum)
                        ELSE qualifiers[name]]
             IN  [panic |-> FALSE, function |-> alg,
                  qualifiers |-> {[name |-> name, value |-> uniqueQualifiers[name]]
                                     : name \in DOMAIN uniqueQualifiers}]
        : best \in {BestSingleChecksum(i, alg)}})

-----------------------------------------------------------------------------
(* Specification of the remote asset client *)

\* number of FetchBlob calls in a behaviour
MaxFetches == 1

\* the integrities of the assets: the checksums of a blob for a non-empty set
\* of algorithms
FetchIntegrities ==
    {IntegrityOf(b, algs) : b \in Blobs, algs \in (SUBSET Algorithms) \ {{}}}

\* the answers of the service: none, or a digest of any digest function, hash
\* and size
FetchAnswers ==
    {[ok |-> FALSE, function |-> "sha256", hash |-> ZeroHash, size |-> 0]}
        \cup [ok : {TRUE}, function : Algorithms,
              hash : {HashOf(alg, b) : alg \in Algorithms, b \in Blobs},
              size : {0, SmallSize, byteStreamThreshold}]

InitAsset ==
    /\ digestFunction \in Algorithms
    /\ digestHashAttributeName = NoAttributeName
    /\ NoWatcher
    /\ seed = NoCollision
    /\ goroutines = <<>>
    /\ remoteConfigured = TRUE
    /\ \E i \in FetchIntegrities : asset = [integrity |-> i, sizeHint |-> 0 - 1]
    /\ cache = EmptyCache
    /\ localCAS = EmptyDisk
    /\ remoteCAS = EmptyRemote
    /\ last = [op |-> "none", err |-> OK]
    /\ nSteps = 0
    /\ firstLearned = EmptyCache
    /\ lastWrites = {}
    /\ lastPut = [valid |-> FALSE]
    /\ nWrites = 0
    /\ manifestLeafs = <<>>
    /\ staging = <<>>
    /\ streams = <<>>
    /\ handle = NoHandle
    /\ lastRead = NoRead

\* RemoteAssetService.FetchBlob for the asset, with the answer of the
\* service; propagateCredentials is the client's setting, headers what the
\* credential helper answers
AssetFetchBlob ==
    /\ nSteps < MaxFetches
    /\ \E answer \in FetchAnswers, qualifiers \in AssetQualifiers,
          propagateCredentials \in BOOLEAN, headers \in HelperHeaders :
          /\ propagateCredentials \/ headers = <<>>
          /\ \E r \in {FetchBlobResponse(asset.integrity, digestFunction, answer)},
                req \in {protoFetchBlobRequest(
                            asset.integrity,
                            IF propagateCredentials THEN authenticate(qualifiers, headers)
                            ELSE qualifiers,
                            digestFunction)} :
                last' = [op |-> "FetchBlob", err |-> r.err, digest |-> r.digest,
                         answer |-> answer, request |-> req, given |-> qualifiers,
                         propagateCredentials |-> propagateCredentials,
                         headers |-> headers]
    /\ nSteps' = nSteps + 1
    /\ UNCHANGED <<cfgVars, watchVars, streamVars, histVars, diskVars, cache, localCAS, remoteCAS>>

NextAsset == AssetFetchBlob

SpecAsset == InitAsset /\ [][NextAsset]_vars

-----------------------------------------------------------------------------
(* Claims about the remote asset client *)

\* the asset's checksum for the digest function
PrimaryChecksum == ChecksumForAlgorithm(asset.integrity, digestFunction)

\* C15: when the integrity has a checksum for the digest function, FetchBlob
\* returns a digest only if the hash of the answered digest equals that
\* checksum, and it is the answered digest; on any other hash it fails with
\* "unexpected digest" and returns no digest
C15_AcceptsOnlyMatchingHash ==
    (last.op = "FetchBlob" /\ PrimaryChecksum.ok) =>
        /\ last.err = OK
               => /\ last.answer.ok
                  /\ last.answer.hash = PrimaryChecksum.checksum.hash
                  /\ last.digest = NewDigest(last.answer.hash, last.answer.size,
                                            last.answer.function)
        /\ last.err # OK => Uninitialized(last.digest)
        /\ (/\ last.answer.ok
            /\ HashLen(last.answer.hash) = AlgorithmSizeBytes(last.answer.function)
            /\ last.answer.hash # PrimaryChecksum.checksum.hash)
               => last.err = "unexpected digest"

\* the service answered with the hash of another blob, of the right length
C15_Witness ==
    /\ last.op = "FetchBlob" /\ PrimaryChecksum.ok
    /\ last.answer.ok /\ last.answer.function = digestFunction
    /\ last.answer.hash # PrimaryChecksum.checksum.hash
    /\ last.err = "unexpected digest"

\* the algorithms in the order of preference for the one checksum of a
\* request: the digest function, SHA-256, BLAKE3, SHA-512, SHA-384
Preference == <<digestFunction, "sha256", "blake3", "sha512", "sha384">>

\* the preferred algorithm among those the asset has a checksum for
Preferred ==
    Preference[CHOOSE n \in DOMAIN Preference :
                  /\ asset.integrity[Preference[n]] # NilHash
                  /\ \A m \in 1..(n - 1) : asset.integrity[Preference[m]] = NilHash]

\* the header qualifiers of the last request: one for every header the
\* credential helper answered with
Credentials ==
    UNION {{HeaderQualifier(i - 1, k) : k \in DOMAIN last.headers[i]}
              : i \in DOMAIN last.headers}

\* C29: the request of a FetchBlob carries exactly one qualifier
\* checksum.sri, and it is the SRI of the asset's checksum for the first
\* algorithm it has one for among the digest function, SHA-256, BLAKE3,
\* SHA-512, SHA-384; the other qualifiers are those of the asset and, when
\* credentials are propagated, the headers of the URIs
C29_RequestCarriesBestSingleChecksum ==
    last.op = "FetchBlob"
        => /\ ~last.request.panic
           /\ \A q \in last.request.qualifiers :
                 IF q.name = <<"checksum.sri">>
                 THEN q.value = <<Preferred, "-", asset.integrity[Preferred]>>
                 ELSE IF q.name \in Credentials
                 THEN q.value = Join(last.headers[q.name[2] + 1][q.name[3]])
                 ELSE q.name \in DOMAIN last.given /\ q.value = last.given[q.name]
           /\ \E q \in last.request.qualifiers : q.name = <<"checksum.sri">>
           /\ \A name \in (DOMAIN last.given \cup Credentials) \ {<<"checksum.sri">>} :
                 \E q \in last.request.qualifiers : q.name = name

\* the digest function is SHA-512 and the asset has the checksums SHA-256,
\* SHA-384 and BLAKE3: the request carries the SHA-256 checksum
C29_Witness ==
    /\ last.op = "FetchBlob"
    /\ digestFunction = "sha512"
    /\ {a \in Algorithms : asset.integrity[a] # NilHash} = {"sha256", "sha384", "blake3"}
    /\ [name |-> <<"checksum.sri">>,
         value |-> <<"sha256", "-", asset.integrity["sha256"]>>]
           \in last.request.qualifiers
    /\ last.propagateCredentials /\ Credentials # {}

-----------------------------------------------------------------------------
(* SpecTransfer: transfers of lists of digests from the remote to the local CAS *)

\* number of digests of a transfer
MaxBatch == 3

\* number of steps in which a transfer can start
MaxTransferSteps == 2

\* a small blob, a large blob, and the two blobs that reach the threshold as a
\* pair or together with the small blob
TransferBlobs == {1, 2, HalfBlob, NearBlob}

TransferLists ==
    UNION {[1..n -> {DigestOfBlob("sha256", b) : b \in TransferBlobs}] : n \in 0..MaxBatch}

\* the answers of the remote CAS to a part: as asked, an error, or with a
\* response less, a response more, or the responses reversed
TransferAnswers == {"ok", "err", "short", "long", "swapped"}

\* no answer of the remote CAS is at hand
NoReads == [streamed |-> FALSE, numDigests |-> 0, requested |-> <<>>, err |-> OK, data |-> <<>>]

\* no transfer has been called.  A transfer is a record of pc (reads: it
\* waits for the remote CAS, writes: it waits for the local CAS, returned),
\* the digests it was called with, those that remain, the parts it has
\* made, its error and the answer of the remote CAS to the part it is in
NoTransfer ==
    [pc |-> "none", digests |-> <<>>, rest |-> <<>>, parts |-> <<>>, err |-> OK,
     reads |-> NoReads]

InitTransfer ==
    /\ digestFunction = "sha256"
    /\ seed = NoCollision
    /\ goroutines = <<>>
    /\ digestHashAttributeName = NoAttributeName
    /\ queue = [kind |-> "none"]
    /\ manifestFile = [kind |-> "none"]
    /\ watcher = [kind |-> "none"]
    /\ fsRoot = [kind |-> "none"]
    /\ kernel = [kind |-> "none"]
    /\ request = NoTransfer
    /\ remoteConfigured = TRUE
    /\ asset = [integrity |-> EmptyIntegrity, sizeHint |-> 0 - 1]
    /\ cache = EmptyCache
    /\ localCAS = EmptyDisk
    /\ remoteCAS = [d \in {DigestOfBlob("sha256", b) : b \in TransferBlobs} |->
                       CHOOSE b \in TransferBlobs : DigestOfBlob("sha256", b) = d]
    /\ last = NoCall
    /\ nSteps = 0
    /\ firstLearned = EmptyCache
    /\ lastWrites = {}
    /\ lastPut = [valid |-> FALSE]
    /\ nWrites = 0
    /\ manifestLeafs = <<>>
    /\ staging = <<>>
    /\ streams = <<>>
    /\ handle = NoHandle
    /\ lastRead = NoRead

TransferStep ==
    UNCHANGED <<cfgVars, histVars, diskVars, streamVars, cache, remoteCAS, last, manifestFile,
                watcher, fsRoot, kernel>>

\* a part of the transfer is over: the transfer returns its error, returns
\* when no digest remains, or goes on with the next part
Transferred(p) ==
    [request EXCEPT !.pc = IF p.err # OK \/ Len(p.rest) = 0 THEN "returned" ELSE "reads",
                    !.err = p.err, !.rest = p.rest, !.parts = Append(@, p),
                    !.reads = NoReads]

\* casRemoteToLocalTransfer is called with a list of digests
DoTransfer ==
    /\ request.pc \in {"none", "returned"}
    /\ nSteps < MaxTransferSteps
    /\ \E digests \in TransferLists :
          request' = [NoTransfer EXCEPT !.pc = IF Len(digests) = 0 THEN "returned" ELSE "reads",
                                        !.digests = digests, !.rest = digests]
    /\ nSteps' = nSteps + 1
    /\ UNCHANGED localCAS
    /\ TransferStep

\* the remote CAS answers the read of a part; a failed read ends the part
TransferReads ==
    /\ request.pc = "reads"
    /\ \E how \in TransferAnswers :
          \E r \in {casRemoteToLocalTransferPartReads(remoteCAS, request.rest,
                                                     digestFunction, how)} :
              request' =
                 IF r.err # OK \/ (~r.streamed /\ Len(r.data) # r.numDigests)
                 THEN Transferred(casRemoteToLocalTransferPartWrites(
                                     localCAS, request.rest, digestFunction, r))
                 ELSE [request EXCEPT !.pc = "writes", !.reads = r]
    /\ UNCHANGED <<localCAS, nSteps>>
    /\ TransferStep

\* the local CAS has written what was read for a part
TransferWrites ==
    /\ request.pc = "writes"
    /\ \E p \in {casRemoteToLocalTransferPartWrites(localCAS, request.rest, digestFunction,
                                                    request.reads)} :
          /\ localCAS' = p.local
          /\ request' = Transferred(p)
    /\ UNCHANGED nSteps
    /\ TransferStep

NextTransfer == DoTransfer \/ TransferReads \/ TransferWrites \/ RemoteEvicts \/ RemoteCorrupts

SpecTransfer == InitTransfer /\ [][NextTransfer]_vars

-----------------------------------------------------------------------------
(* Claims about batched transfers *)

\* the parts of the last transfer whose head digest is below the threshold
BatchParts ==
    {k \in DOMAIN request.parts : request.parts[k].digests[1].size < byteStreamThreshold}

\* the cumulative size of the first n digests
RECURSIVE CumulativeSize(_, _)
CumulativeSize(digests, n) ==
    IF n = 0 THEN 0 ELSE CumulativeSize(digests, n - 1) + digests[n].size

\* n digests are the greedy prefix: together they are below the threshold,
\* and with the next digest, if there is one, they are not
GreedyPrefix(digests, n) ==
    /\ n \in 0..Len(digests)
    /\ CumulativeSize(digests, n) < byteStreamThreshold
    /\ n < Len(digests) => CumulativeSize(digests, n + 1) >= byteStreamThreshold

\* C18: a part with a head digest below 1 MiB asks for the greedy prefix of
\* the pending digests whose cumulative size is below 1 MiB in a single
\* BatchReadBlobs and writes it in a single BatchUpdateBlobs; an answer with
\* another number of responses than digests asked for is rejected; after a
\* part that succeeded every digest of the prefix is in the local CAS and the
\* digests after the prefix remain
C18_BatchTransfersGreedyPrefix ==
    \A k \in BatchParts :
        LET p == request.parts[k]
            prefix == SubSeq(p.digests, 1, p.numDigests)
        IN  /\ GreedyPrefix(p.digests, p.numDigests)
            /\ p.numDigests >= 1
            /\ p.requested = <<prefix>>
            /\ p.read # OK => (p.err = p.read /\ p.updated = <<>> /\ p.local = p.before)
            /\ (p.read = OK /\ p.responses # p.numDigests)
                   => /\ p.err = "unexpected number of responses from remote CAS"
                      /\ p.updated = <<>>
                      /\ p.local = p.before
            /\ p.err = OK
                   => /\ p.updated = <<prefix>>
                      /\ p.rest = SubSeq(p.digests, p.numDigests + 1, Len(p.digests))
                      /\ \A i \in 1..p.numDigests :
                            /\ blobPath(prefix[i].hash) \in DOMAIN p.local
                            /\ CheckContent(prefix[i], p.local[blobPath(prefix[i].hash)].content,
                                            digestFunction)

\* a transfer of two digests that together have exactly the threshold size
\* moved them in two batches of one digest
C18_Witness ==
    /\ request.pc = "returned" /\ request.err = OK
    /\ Len(request.digests) = 2 /\ Len(request.parts) = 2
    /\ request.parts[1].numDigests = 1
    /\ CumulativeSize(request.digests, 2) = byteStreamThreshold
    /\ request.parts[2].numDigests = 1
    /\ request.parts[2].digests[1].size < byteStreamThreshold

-----------------------------------------------------------------------------
(* SpecEquivalent: comparisons of two integrities *)

\* the integrities that have, for each algorithm, no checksum or the
\* checksum of blob 1 or of blob 2
ComparedIntegrities ==
    [Algorithms -> {0, 1, 2}]

IntegrityWith(f) == [a \in Algorithms |-> IF f[a] = 0 THEN NilHash ELSE HashOf(a, f[a])]

InitEquivalent ==
    /\ digestFunction = "sha256"
    /\ seed = NoCollision
    /\ goroutines = <<>>
    /\ digestHashAttributeName = NoAttributeName
    /\ NoWatcher
    /\ remoteConfigured = FALSE
    /\ \E f \in ComparedIntegrities :
          asset = [integrity |-> IntegrityWith(f), sizeHint |-> 0 - 1]
    /\ cache = EmptyCache
    /\ localCAS = EmptyDisk
    /\ remoteCAS = EmptyRemote
    /\ last = [op |-> "none", err |-> OK]
    /\ nSteps = 0
    /\ firstLearned = EmptyCache
    /\ lastWrites = {}
    /\ lastPut = [valid |-> FALSE]
    /\ nWrites = 0
    /\ manifestLeafs = <<>>
    /\ staging = <<>>
    /\ streams = <<>>
    /\ handle = NoHandle
    /\ lastRead = NoRead

\* the asset's integrity is compared with another integrity
CompareIntegrity ==
    /\ \E f \in ComparedIntegrities :
          last' = [op |-> "Equivalent", err |-> OK, other |-> IntegrityWith(f),
                   equivalent |-> Equivalent(asset.integrity, IntegrityWith(f))]
    /\ UNCHANGED <<cfgVars, watchVars, streamVars, histVars, diskVars, cache, localCAS, remoteCAS,
                   nSteps>>

NextEquivalent == CompareIntegrity

SpecEquivalent == InitEquivalent /\ [][NextEquivalent]_vars

-----------------------------------------------------------------------------
(* Claims about the equivalence of integrities *)

\* the algorithms that have a checksum in both integrities
InBoth(i, other) == {a \in Algorithms : i[a] # NilHash /\ other[a] # NilHash}

\* C20: two integrities are equivalent if and only if both are non-empty, the
\* hashes are equal for every algorithm present in both, and at least one
\* algorithm is present in both, for each of the four algorithms alike
C20_EquivalentIffShared ==
    last.op = "Equivalent" =>
        (last.equivalent <=>
            /\ ~IntegrityEmpty(asset.integrity) /\ ~IntegrityEmpty(last.other)
            /\ \A a \in InBoth(asset.integrity, last.other) :
                  asset.integrity[a] = last.other[a]
            /\ InBoth(asset.integrity, last.other) # {})

\* the direction of C20 that holds for every algorithm: equivalent
\* integrities are non-empty, share an algorithm, and agree where they share
C20_EquivalentOnlyIfShared ==
    (last.op = "Equivalent" /\ last.equivalent) =>
        /\ ~IntegrityEmpty(asset.integrity) /\ ~IntegrityEmpty(last.other)
        /\ \A a \in InBoth(asset.integrity, last.other) :
              asset.integrity[a] = last.other[a]
        /\ InBoth(asset.integrity, last.other) # {}

-----------------------------------------------------------------------------
(* SpecEquals: comparisons of two digests *)

\* digests of the primary algorithm: the hash buffer is all zero or holds the
\* hash of a blob, the size is zero or that of a blob
ComparedDigests ==
    {NewDigest(HashOf("sha256", b), n, "sha256") :
        b \in Blobs, n \in {0, SmallSize, byteStreamThreshold}}
    \cup {[hash |-> ZeroHash, size |-> n] : n \in {0, SmallSize, byteStreamThreshold}}

\* no asset, empty stores, nothing compared yet
InitEquals == InitEquivalent /\ asset.integrity = EmptyIntegrity

\* d.Equals(other, digestFunction)
CompareDigests ==
    /\ \E d \in ComparedDigests, other \in ComparedDigests :
          last' = [op |-> "Equals", err |-> OK, d |-> d, other |-> other,
                   equal |-> DigestEquals(d, other)]
    /\ UNCHANGED <<cfgVars, watchVars, streamVars, histVars, diskVars, cache, localCAS, remoteCAS,
                   nSteps>>

NextEquals == CompareDigests

SpecEquals == InitEquals /\ [][NextEquals]_vars

-----------------------------------------------------------------------------
(* Claims about the equality of digests *)

\* C21: a digest other than the uninitialized one equals itself, equal
\* digests have the same size and hash, and the uninitialized digest (zero
\* hash, size 0) equals no digest, not even itself
C21_EqualsIsValueEqualityButForUninitialized ==
    last.op = "Equals" =>
        /\ (last.d = last.other /\ ~Uninitialized(last.d)) => last.equal
        /\ last.equal => (last.d.size = last.other.size /\ last.d.hash = last.other.hash)
        /\ (Uninitialized(last.d) \/ Uninitialized(last.other)) => ~last.equal

\* the uninitialized digest was compared with itself
C21_Witness ==
    /\ last.op = "Equals"
    /\ last.d = UninitDigest /\ last.other = UninitDigest
    /\ ~last.equal

-----------------------------------------------------------------------------
(* SpecXattr: getxattr on the leaf of one asset *)

\* the configured names of the digest attribute: the usual one, one that is
\* no "user." + algorithm name, and none
XattrNames == {UserAttribute("sha256"), UserAttribute("digest"), NoAttributeName}

\* the names asked for
XattrAsked ==
    {UserAttribute(rest) :
        rest \in {"sha256", "sha384", "SHA384", "SHA256", "Blake3", "sha512", "digest"}}
    \cup {[prefix |-> "", rest |-> "trusted.sha256"]}

\* lengths of the destination buffer
XattrDestLens == {0, 32, 48}

InitXattr ==
    /\ digestFunction = "sha256"
    /\ seed = NoCollision
    /\ goroutines = [t \in 1..NGoroutines |-> Idle]
    /\ digestHashAttributeName \in XattrNames
    /\ NoWatcher
    /\ remoteConfigured \in BOOLEAN
    /\ asset \in Assets
    /\ cache = PrimeLeaf(EmptyCache, asset)
    /\ localCAS = EmptyDisk
    /\ remoteCAS = EmptyRemote
    /\ last = NoCall
    /\ nSteps = 0
    /\ firstLearned = EmptyCache
    /\ lastWrites = {}
    /\ lastPut = [valid |-> FALSE]
    /\ nWrites = 0
    /\ manifestLeafs = <<asset>>
    /\ staging = <<>>
    /\ streams = <<>>
    /\ handle = NoHandle
    /\ lastRead = NoRead

\* leaf.Getxattr is called
LeafGetxattr ==
    \E attr \in XattrAsked, destLen \in XattrDestLens :
        Begins("Getxattr", [NoArgs EXCEPT !.attr = attr, !.destLen = destLen], "Getxattr")

\* the remote CAS evicts a blob while the process runs
XattrRemoteEvicts == RemoteEvicts

NextXattr ==
    \/ LeafGetxattr
    \/ \E t \in DOMAIN goroutines : ServiceAnswers(t)
    \/ \E t \in DOMAIN goroutines : Returns(t)
    \/ XattrRemoteEvicts

SpecXattr == InitXattr /\ [][NextXattr]_vars

-----------------------------------------------------------------------------
(* Claims about getxattr *)

\* C22: the prefetch that getxattr triggers is best effort: when it fails,
\* getxattr does not fail and the process does not end; the attribute is
\* returned as without the failure
C22_FailedPrefetchIsHarmless ==
    (last.op = "Getxattr" /\ last.prefetched /\ last.err # OK)
        => /\ last.panic = ""
           /\ last.errno \in {"0", "ERANGE"}

\* C23: getxattr alone writes nothing to the local CAS: it stays empty
C23_GetxattrLeavesLocalEmpty ==
    localCAS = EmptyDisk

\* a getxattr has prefetched the blob into the remote CAS
C23_Witness ==
    /\ last.op = "Getxattr" /\ last.prefetched /\ last.err = OK
    /\ \E i \in DOMAIN last.calls : last.calls[i].call = "remoteAsset.FetchBlob"
    /\ remoteCAS # EmptyRemote
    /\ localCAS = EmptyDisk

\* the algorithm whose checksum the name asked for names, NoAlgorithm if the
\* name is not supported or the leaf has no such checksum
AskedAlgorithm ==
    LET found == AlgorithmFromString(last.args.attr.rest)
    IN  IF last.args.attr = digestHashAttributeName THEN digestFunction
        ELSE IF last.args.attr.prefix = "user." /\ found.ok
                /\ asset.integrity[found.algorithm] # NilHash
        THEN found.algorithm
        ELSE NoAlgorithm

\* the hash of the asset under the digest function: its checksum of that
\* algorithm, or the hash of the digest the cache knows for it
PrimaryHash ==
    IF asset.integrity[digestFunction] # NilHash THEN asset.integrity[digestFunction]
    ELSE FromIntegrity(cache, asset.integrity).digest.hash

\* C24: getxattr, when its prefetch does not fail, returns the hash of the
\* digest function for the configured name, the checksum of the algorithm for
\* "user." + algorithm when the leaf has it, with the algorithm's length;
\* ENODATA for any other name; ERANGE for a buffer shorter than the hash
C24_GetxattrReturnsTheHashAsked ==
    (last.op = "Getxattr" /\ last.err = OK) =>
        IF AskedAlgorithm = NoAlgorithm THEN last.errno = "ENODATA"
        ELSE IF last.args.destLen < AlgorithmSizeBytes(AskedAlgorithm)
        THEN last.errno = "ERANGE"
        ELSE /\ last.errno = "0"
             /\ last.n = AlgorithmSizeBytes(AskedAlgorithm)
             /\ last.value.len = AlgorithmSizeBytes(AskedAlgorithm)
             /\ last.value.hash = (IF last.args.attr = digestHashAttributeName
                                   THEN PrimaryHash
                                   ELSE asset.integrity[AskedAlgorithm])

\* the part of C24 that holds: names that are not supported give ENODATA,
\* and the configured name gives ERANGE for a short buffer and otherwise as
\* many bytes as the digest function's hash is long
C24_ConfiguredNameAndUnknownNames ==
    (last.op = "Getxattr" /\ last.err = OK
        /\ (AskedAlgorithm = NoAlgorithm \/ last.args.attr = digestHashAttributeName)) =>
        IF AskedAlgorithm = NoAlgorithm THEN last.errno = "ENODATA"
        ELSE IF last.args.destLen < AlgorithmSizeBytes(digestFunction)
        THEN last.errno = "ERANGE" /\ last.n = AlgorithmSizeBytes(digestFunction)
        ELSE /\ last.errno = "0"
             /\ last.n = AlgorithmSizeBytes(digestFunction)
             /\ last.value.len = AlgorithmSizeBytes(digestFunction)

-----------------------------------------------------------------------------
(* package fs: the handle of an open leaf *)

\* the file of the local CAS that Disk.ReadStream opens; closes counts the
\* closes of its descriptor
NewFile(size) == [size |-> size, closed |-> FALSE, closes |-> 0]

\* os.File.Close: closes the descriptor, and fails on a closed file
osFileClose(f) ==
    IF f.closed THEN [err |-> "file already closed", file |-> f]
    ELSE [err |-> "nil", file |-> [f EXCEPT !.closed = TRUE, !.closes = @ + 1]]

\* os.File.ReadAt with a buffer of len bytes
osFileReadAt(f, len, off) ==
    IF f.closed THEN [n |-> 0, err |-> "file already closed"]
    ELSE IF off >= f.size THEN [n |-> 0, err |-> "EOF"]
    ELSE [n |-> Min(len, f.size - off),
          err |-> IF f.size - off < len THEN "EOF" ELSE "nil"]

\* the errno of an error that is no syscall.Errno
ErrnoOf(err) == IF err = "nil" THEN "0" ELSE "EIO"

\* leaf.Open: the handle reads from the local CAS (kind "file") or from the
\* remote CAS (kind "stream"), as Prefetcher.RandomAccessStream decides;
\* releases counts the calls of Release
NewLeafHandle(kind) ==
    [kind |-> kind, stream |-> NewStreamingFileHandle(StreamSize, 0),
     file |-> NewFile(SmallSize), releases |-> 0]

\* leafHandle.Read
leafHandleRead(h, ss, len, off, env) ==
    IF h.kind = "file"
    THEN Only({
        [n |-> IF r.err \in {"nil", "EOF"} THEN r.n ELSE 0,
         errno |-> IF r.err \in {"nil", "EOF"} THEN "0" ELSE ErrnoOf(r.err),
         handle |-> h, streams |-> ss]
        : r \in {osFileReadAt(h.file, len, off)}})
    ELSE Only({
        [n |-> IF r.err \in {"nil", "EOF"} THEN r.n ELSE 0,
         errno |-> IF r.err \in {"nil", "EOF"} THEN "0" ELSE ErrnoOf(r.err),
         handle |-> [h EXCEPT !.stream = r.handle], streams |-> r.streams]
        : r \in {handleReadAt(h.stream, ss, len, off, env)}})

\* leafHandle.Release
leafHandleRelease(h, ss) ==
    IF h.kind = "file"
    THEN Only({
        [errno |-> ErrnoOf(r.err),
         handle |-> [h EXCEPT !.file = r.file, !.releases = @ + 1], streams |-> ss]
        : r \in {osFileClose(h.file)}})
    ELSE Only({
        [errno |-> ErrnoOf(r.err),
         handle |-> [h EXCEPT !.stream = r.handle, !.releases = @ + 1],
         streams |-> r.streams]
        : r \in {handleClose(h.stream, ss)}})

-----------------------------------------------------------------------------
(* Specification of the handle of an open leaf *)

\* number of operations on a handle in a behaviour
MaxReleaseSteps == 4

\* offsets of reads of a leaf
LeafReadOffsets == {0, 3, SmallSize, Far, StreamSize}

InitRelease ==
    /\ digestFunction = "sha256"
    /\ seed = NoCollision
    /\ goroutines = <<>>
    /\ digestHashAttributeName = NoAttributeName
    /\ NoWatcher
    /\ remoteConfigured = TRUE
    /\ asset = [integrity |-> EmptyIntegrity, sizeHint |-> 0 - 1]
    /\ cache = EmptyCache
    /\ localCAS = EmptyDisk
    /\ remoteCAS = EmptyRemote
    /\ last = [op |-> "none", err |-> OK]
    /\ nSteps = 0
    /\ firstLearned = EmptyCache
    /\ lastWrites = {}
    /\ lastPut = [valid |-> FALSE]
    /\ nWrites = 0
    /\ manifestLeafs = <<>>
    /\ staging = <<>>
    /\ streams = <<>>
    /\ handle \in {NewLeafHandle(kind) : kind \in {"file", "stream"}}
    /\ lastRead = NoRead

\* the kernel reads an open handle
LeafRead ==
    /\ nSteps < MaxReleaseSteps
    /\ Len(streams) < MaxStreams
    /\ handle.releases = 0
    /\ \E len \in ReadLens, off \in LeafReadOffsets \cup {handle.stream.sourceOffset},
          env \in HandleEnvs :
          \E r \in {leafHandleRead(handle, streams, len, off, env)} :
              /\ handle' = r.handle
              /\ streams' = r.streams
              /\ lastRead' = [op |-> "Read", len |-> len, off |-> off, n |-> r.n,
                              errno |-> r.errno]
    /\ nSteps' = nSteps + 1
    /\ StreamStep

\* the handle is released, for the first time or again
LeafRelease ==
    /\ nSteps < MaxReleaseSteps
    /\ \E r \in {leafHandleRelease(handle, streams)} :
          /\ handle' = r.handle
          /\ streams' = r.streams
          /\ lastRead' = [op |-> "Release", errno |-> r.errno]
    /\ nSteps' = nSteps + 1
    /\ StreamStep

NextRelease == LeafRead \/ LeafRelease

SpecRelease == InitRelease /\ [][NextRelease]_vars

-----------------------------------------------------------------------------
(* Claims about the release of a handle *)

\* the descriptor of the file and the cancel function of every stream are
\* released at most once, and exactly once when the handle was released
ReleasedOnce ==
    /\ \A i \in DOMAIN streams : streams[i].cancels <= 1
    /\ handle.file.closes <= 1
    /\ handle.releases > 0
           => /\ handle.kind = "stream" => \A i \in DOMAIN streams : streams[i].cancels = 1
              /\ handle.kind = "file" => handle.file.closes = 1

\* C25 as stated: the resources of a handle are released exactly once, also
\* when it is closed again or closed after its stream ended, and no close
\* fails
C25_ReleasedOnceAndNoCloseFails ==
    /\ ReleasedOnce
    /\ lastRead.op = "Release" => lastRead.errno = "0"

\* C25: the resources of a handle are released exactly once, also when it is
\* closed again or closed after its stream ended; the first close succeeds,
\* a repeated close of a streaming handle succeeds, and a repeated close of
\* a handle on a local file releases nothing and reports EIO
C25_ReleasedOnceAndFirstCloseSucceeds ==
    /\ ReleasedOnce
    /\ lastRead.op = "Release"
           => lastRead.errno = (IF handle.kind = "file" /\ handle.releases > 1
                                THEN "EIO" ELSE "0")

\* a streaming handle that reconnected and read to the end of its stream was
\* released twice
C25_Witness ==
    /\ handle.kind = "stream"
    /\ handle.releases = 2
    /\ Len(streams) = 2
    /\ streams[2].eofs > 0

-----------------------------------------------------------------------------
(* package manifest, package watcher and the directory nodes of package fs *)

\* names of the entries of the root directory, in the order of slices.Sort
NameOrder == <<"a", "b">>

Names == {NameOrder[i] : i \in DOMAIN NameOrder}

\* the value of Directory.Children[name] for a name the map does not hold
Nil == [kind |-> "nil"]

\* a directory without entries
Dir == [kind |-> "dir"]

\* the leaves a manifest can hold under one name
Revs == {0, 1}

\* a leaf; rev tells which of the leaves of its name it is
File(rev) == [kind |-> "file", rev |-> rev]

\* a child of a directory: a leaf or a directory
ChildValues == {Dir} \cup {File(rev) : rev \in Revs}

\* the root of a manifest tree: Directory.Children
Trees == [Names -> ChildValues \cup {Nil}]

EmptyTree == [n \in Names |-> Nil]

Children(t) == {n \in Names : t[n] # Nil}

\* manifest.Leaf of a file: the leaves of the first name have a checksum of
\* the digest function, another checksum and a size hint, which differs
\* between the two; the leaves of the other names have no checksum of the
\* digest function, or no size hint
LeafOf(name, rev) ==
    IF name = NameOrder[1]
    THEN [integrity |-> IntegrityOf(1, {digestFunction, "sha384"}),
          sizeHint |-> SmallSize + rev]
    ELSE IF rev = 0
    THEN [integrity |-> IntegrityOf(2, {"sha384"}), sizeHint |-> SizeOf(2)]
    ELSE [integrity |-> IntegrityOf(2, {digestFunction}), sizeHint |-> 0 - 1]

\* ManifestTree.Leafs
Leafs(t) ==
    LET files == SelectSeq(NameOrder, LAMBDA n : t[n].kind = "file")
    IN  [i \in 1..Len(files) |-> LeafOf(files[i], t[files[i]].rev)]

\* Leaf.Mode of a leaf that is not executable, and Directory.Mode
Mode(child) == IF child.kind = "dir" THEN 16749 ELSE 33060

\* contents of the manifest file: a manifest that yields a tree, text that
\* is no JSON, and a manifest that fails validation
ManifestContents ==
    [kind : {"valid"}, tree : Trees] \cup [kind : {"syntax", "invalid"}, tree : {EmptyTree}]

ChildCode(c) == IF c.kind = "nil" THEN 0 ELSE IF c.kind = "dir" THEN 1 ELSE 2 + c.rev

\* Algorithm.CalculateDigest of the manifest file: contents that differ have
\* digests that differ
ManifestDigest(content) ==
    NewDigest(Identifier(digestFunction) * 100
                  + (IF content.kind = "valid" THEN 10 ELSE IF content.kind = "syntax" THEN 40
                     ELSE 50)
                  + ChildCode(content.tree[NameOrder[1]])
                  + 4 * ChildCode(content.tree[NameOrder[2]]),
              2 + Cardinality(Children(content.tree)), digestFunction)

\* manifest.TreeFromManifest
TreeFromManifest(content) ==
    IF content.kind = "syntax" THEN [err |-> "ManifestDecodeError", tree |-> EmptyTree]
    ELSE IF content.kind = "invalid" THEN [err |-> "validation", tree |-> EmptyTree]
    ELSE [err |-> OK, tree |-> content.tree]

\* what reloadManifestTreeIfChanged returns, and the watcher afterwards
ReloadReturns(tree, shouldUpdate, err, log, w) ==
    [tree |-> tree, shouldUpdate |-> shouldUpdate, err |-> err, log |-> log, watcher |-> w]

\* a reload that records the digest of the file before parsing it
reloadRecordingDigestFirst(w, content, mtime) ==
    IF ManifestDigest(content) = w.manifestDigest
    THEN ReloadReturns(EmptyTree, FALSE, OK, "same digest", w)
    ELSE LET w1 == [w EXCEPT !.manifestDigest = ManifestDigest(content),
                             !.manifestMtime = mtime]
         IN  Only({
            IF r.err = "ManifestDecodeError"
            THEN ReloadReturns(EmptyTree, FALSE, OK, "syntax error", w1)
            ELSE IF r.err # OK THEN ReloadReturns(EmptyTree, FALSE, r.err, "none", w1)
            ELSE ReloadReturns(r.tree, TRUE, OK, "none", w1)
            : r \in {TreeFromManifest(content)}})

\* ManifestWatcher.reloadManifestTreeIfChanged from the read of the file on:
\* content is what CalculateDigest read through the TeeReader, mtime what
\* Stat returned before
reloadManifestTreeIfChanged(w, content, mtime) ==
    IF ManifestDigest(content) = w.manifestDigest
    THEN ReloadReturns(EmptyTree, FALSE, OK, "same digest", w)
    ELSE Only({
        IF r.err = "ManifestDecodeError"
        THEN ReloadReturns(EmptyTree, FALSE, OK, "syntax error", w)
        ELSE IF r.err # OK THEN ReloadReturns(EmptyTree, FALSE, r.err, "none", w)
        ELSE ReloadReturns(r.tree, TRUE, OK, "none",
                           [w EXCEPT !.manifestDigest = ManifestDigest(content),
                                     !.manifestMtime = mtime])
        : r \in {TreeFromManifest(content)}})

\* dirent.UpdateManifest: a plain store to dirent.manifestNode; stale is the
\* pointer stored before, which a load that races with the store may return
UpdateManifest(root, tree) == [root EXCEPT !.stale = root.manifestNode, !.manifestNode = tree]

\* root.UpdateMtime
UpdateMtime(root, mtime) == [root EXCEPT !.mtime = mtime]

\* the values a load of dirent.manifestNode in a FUSE request may return
Loads(root) == {root.manifestNode, root.stale}

\* one iteration of the notification loop of updateFilesystemTreeOnChange
\* for a name of the root of the old tree
Notification(old, name) ==
    [kind |-> IF name \notin Children(old) THEN "delete" ELSE "entry", name |-> name]

\* a call of ChecksumCache.PutIntegrity in progress: next is the index in
\* Items of the checksum that its loop puts next, raced tells that another
\* call has stored another digest in an entry that this call had put
NoPut ==
    [pc |-> "idle", integrity |-> EmptyIntegrity, digest |-> UninitDigest, next |-> 1,
     raced |-> FALSE]

PutCall(i, digest) ==
    [pc |-> "put", integrity |-> i, digest |-> digest, next |-> 1, raced |-> FALSE]

\* the (hash, identifier) pair and the key of the n-th checksum of an
\* integrity
ItemPair(i, n) == <<Items(i)[n].hash, Identifier(Items(i)[n].algorithm)>>

ItemKey(i, n) == CacheKey(Items(i)[n].hash, Identifier(Items(i)[n].algorithm))

\* a call after the PutSlice of another call stored digest under key
Raced(f, key, digest) ==
    IF /\ f.pc = "put"
       /\ digest # f.digest
       /\ \E n \in 1..(f.next - 1) : ItemKey(f.integrity, n) = key
    THEN [f EXCEPT !.raced = TRUE]
    ELSE f

\* one iteration of the loop of ChecksumCache.PutIntegrity: the cache, and
\* the call, which returns after the last checksum
PutIntegrityStep(c, f) ==
    [cache |-> PutIntegrityPutSlice(c, Items(f.integrity)[f.next].hash,
                                    Identifier(Items(f.integrity)[f.next].algorithm),
                                    f.digest),
     key |-> ItemKey(f.integrity, f.next),
     pair |-> ItemPair(f.integrity, f.next),
     returned |-> f.next = Len(Items(f.integrity)),
     call |-> IF f.next = Len(Items(f.integrity)) THEN NoPut ELSE [f EXCEPT !.next = @ + 1]]

\* the PutIntegrity calls of the priming loop of
\* updateFilesystemTreeOnChange: one for every leaf with a checksum of the
\* digest function and a size hint
RECURSIVE PrimingCalls(_, _)
PrimingCalls(leafs, n) ==
    IF n > Len(leafs) THEN <<>>
    ELSE Only({
        IF r.ok /\ leafs[n].sizeHint >= 0
        THEN <<PutCall(leafs[n].integrity,
                       NewDigest(r.checksum.hash, leafs[n].sizeHint, digestFunction))>>
                 \o PrimingCalls(leafs, n + 1)
        ELSE PrimingCalls(leafs, n + 1)
        : r \in {ChecksumForAlgorithm(leafs[n].integrity, digestFunction)}})

\* the names of a directory after slices.Sort
SortedNames(t) == SelectSeq(NameOrder, LAMBDA n : t[n] # Nil)

\* the entries dirent.Readdir lists for a tree, after "." and ".."
ReaddirOf(t) ==
    [i \in 1..Len(SortedNames(t)) |->
        [name |-> SortedNames(t)[i], mode |-> Mode(t[SortedNames(t)[i]])]]

-----------------------------------------------------------------------------
(* The manifest watcher, the FUSE requests on the root and the calls that *)
(* put into the checksum cache, step by step                              *)

\* the mtime of the manifest file counts its writes, up to this bound
MaxManifestWrites == 2

\* number of Readdir and Lookup requests in a behaviour
MaxCalls == 1

NoReload ==
    [outcome |-> "none", err |-> OK, read |-> [kind |-> "syntax", tree |-> EmptyTree],
     before |-> [tree |-> EmptyTree, mtime |-> 0, digest |-> UninitDigest],
     prev |-> "none"]

\* no request in flight; during is the set of trees the root served while
\* the request ran
NoRequest ==
    [pc |-> "idle", op |-> "none", name |-> "", names |-> <<>>, entries |-> <<>>,
     child |-> Nil, errno |-> "0", during |-> {}]

\* no PutIntegrity call has returned
NoLastPut ==
    [valid |-> FALSE, integrity |-> EmptyIntegrity, digest |-> UninitDigest, raced |-> FALSE,
     n |-> 0]

\* watcher.New with the manifest file holding tree at mtime: the manifest
\* is read, the cache is primed with its leaves and its tree is served by a
\* new root; pc is the place of the watcher's goroutine in
\* updateFilesystemTreeOnChange, mtime, tree, calls, put and notify are its
\* locals
WatcherNew(tree, mtime) ==
    /\ manifestFile = [content |-> [kind |-> "valid", tree |-> tree], mtime |-> mtime]
    /\ watcher = [manifestDigest |-> ManifestDigest([kind |-> "valid", tree |-> tree]),
                  manifestMtime |-> mtime, manifestTree |-> tree, events |-> 0,
                  pc |-> "idle", mtime |-> mtime, tree |-> EmptyTree, calls |-> <<>>,
                  put |-> NoPut, notify |-> {}]
    /\ fsRoot = [manifestNode |-> tree, stale |-> tree, mtime |-> mtime]
    /\ kernel = [notified |-> {}, reload |-> NoReload, calls |-> 0]
    /\ request = NoRequest
    /\ cache = PrimeLeafs(EmptyCache, Leafs(tree), 1)
    /\ firstLearned = PrimeLeafs(EmptyCache, Leafs(tree), 1)
    /\ lastWrites = {}
    /\ lastPut = NoLastPut
    /\ nWrites = 0
    /\ manifestLeafs = <<>>

\* what belongs to neither the watcher nor the cache
Elsewhere ==
    /\ digestHashAttributeName = NoAttributeName
    /\ queue = [kind |-> "none"]
    /\ remoteConfigured = TRUE
    /\ asset = [integrity |-> EmptyIntegrity, sizeHint |-> 0 - 1]
    /\ localCAS = EmptyDisk
    /\ remoteCAS = EmptyRemote
    /\ last = [op |-> "none", err |-> OK]
    /\ nSteps = 0
    /\ staging = <<>>
    /\ streams = <<>>
    /\ handle = NoHandle
    /\ lastRead = NoRead

InitWatcher ==
    /\ digestFunction = "sha256"
    /\ seed = NoCollision
    /\ goroutines = <<>>
    /\ Elsewhere
    /\ \E tree \in Trees : WatcherNew(tree, 0)

WatchStep == UNCHANGED <<cfgVars, prefVars, histVars, diskVars, streamVars>>

\* the manifest file is written with one of contents; fsnotify queues a
\* Write event
WriteManifest(contents) ==
    /\ manifestFile.mtime < MaxManifestWrites
    /\ \E content \in contents :
          manifestFile' = [content |-> content, mtime |-> manifestFile.mtime + 1]
    /\ watcher' = [watcher EXCEPT !.events = @ + 1]
    /\ UNCHANGED <<fsRoot, kernel, request>>
    /\ WatchStep

\* updateFilesystemTreeOnChange returns
Reloaded(outcome, err) == [kernel EXCEPT !.reload.outcome = outcome, !.reload.err = err]

\* the loop of ManifestWatcher.Start receives a Write event of the manifest
\* and calls updateFilesystemTreeOnChange, whose reloadManifestTreeIfChanged
\* opens the file and reads its mtime
OnManifestWrite ==
    /\ watcher.events > 0
    /\ watcher.pc = "idle"
    /\ \E ioOK \in BOOLEAN :
          LET began == [kernel EXCEPT
                  !.notified = {},
                  !.reload = [outcome |-> IF ioOK THEN "running" ELSE "error",
                              err |-> IF ioOK THEN OK ELSE "io",
                              read |-> NoReload.read,
                              before |-> [tree |-> fsRoot.manifestNode,
                                          mtime |-> fsRoot.mtime,
                                          digest |-> watcher.manifestDigest],
                              prev |-> kernel.reload.outcome]]
          IN  /\ kernel' = began
              /\ watcher' = [watcher EXCEPT !.events = @ - 1,
                                            !.pc = IF ioOK THEN "read" ELSE "idle",
                                            !.mtime = manifestFile.mtime]
    /\ UNCHANGED <<manifestFile, fsRoot, request>>
    /\ WatchStep

\* reloadManifestTreeIfChanged reads the file, compares the digest and
\* parses the manifest; updateFilesystemTreeOnChange returns or goes on to
\* its priming loop
WatcherReads ==
    /\ watcher.pc = "read"
    /\ \E r \in {reloadManifestTreeIfChanged(watcher, manifestFile.content, watcher.mtime)} :
          \E calls \in {IF r.shouldUpdate THEN PrimingCalls(Leafs(r.tree), 1) ELSE <<>>} :
              /\ watcher' =
                    IF r.err # OK \/ ~r.shouldUpdate THEN [r.watcher EXCEPT !.pc = "idle"]
                    ELSE [r.watcher EXCEPT !.pc = IF calls = <<>> THEN "update" ELSE "prime",
                                           !.tree = r.tree, !.calls = calls]
              /\ kernel' =
                    [(IF r.err # OK THEN Reloaded("error", r.err)
                      ELSE IF ~r.shouldUpdate THEN Reloaded(r.log, OK)
                      ELSE kernel)
                     EXCEPT !.reload.read = manifestFile.content]
    /\ UNCHANGED <<manifestFile, fsRoot, request>>
    /\ WatchStep

\* history bookkeeping of a step that turns the cache into c by the writes
\* w, each the key, the digest and the (hash, identifier) pair of a PutSlice
Learn(c, w) ==
    /\ cache' = c
    /\ lastWrites' = w
    /\ firstLearned' = [k \in DOMAIN c |->
            IF k \in DOMAIN firstLearned THEN firstLearned[k] ELSE c[k]]

\* the PutIntegrity call f has returned
Put(f) ==
    [valid |-> TRUE, integrity |-> f.integrity, digest |-> f.digest, raced |-> f.raced,
     n |-> lastPut.n + 1]

\* what a PutSlice leaves alone
PutStep ==
    UNCHANGED <<confVars, localCAS, remoteCAS, last, nSteps, manifestLeafs, diskVars,
                streamVars, manifestFile, fsRoot, kernel, request>>

\* one PutSlice of the priming loop of updateFilesystemTreeOnChange: the
\* next checksum of the leaf whose PutIntegrity is in progress, or the first
\* of the next leaf
WatcherPrimes ==
    /\ watcher.pc = "prime"
    /\ \E f \in {IF watcher.put.pc = "put" THEN watcher.put ELSE Head(watcher.calls)} :
          \E r \in {PutIntegrityStep(cache, f)} :
              \E calls \in {IF watcher.put.pc = "put" THEN watcher.calls
                            ELSE Tail(watcher.calls)} :
                  /\ Learn(r.cache, {<<r.key, f.digest, r.pair>>})
                  /\ lastPut' = IF r.returned THEN Put(f) ELSE lastPut
                  /\ watcher' = [watcher EXCEPT
                        !.put = r.call, !.calls = calls,
                        !.pc = IF r.returned /\ calls = <<>> THEN "update" ELSE "prime"]
                  /\ goroutines' = [u \in DOMAIN goroutines |->
                                        Raced(goroutines[u], r.key, f.digest)]
    /\ UNCHANGED nWrites
    /\ PutStep

\* updateFilesystemTreeOnChange stores the new root: root.UpdateManifest
WatcherUpdatesManifest ==
    /\ watcher.pc = "update"
    /\ fsRoot' = UpdateManifest(fsRoot, watcher.tree)
    /\ watcher' = [watcher EXCEPT !.pc = "mtime"]
    /\ UNCHANGED <<manifestFile, kernel, request>>
    /\ WatchStep

\* updateFilesystemTreeOnChange stores the mtime: root.UpdateMtime; the
\* watcher keeps the new tree and turns to the children of the old one
WatcherUpdatesMtime ==
    /\ watcher.pc = "mtime"
    /\ fsRoot' = UpdateMtime(fsRoot, watcher.manifestMtime)
    /\ watcher' = [watcher EXCEPT
          !.manifestTree = watcher.tree, !.tree = EmptyTree,
          !.notify = Children(watcher.manifestTree),
          !.pc = IF Children(watcher.manifestTree) = {} THEN "idle" ELSE "notify"]
    /\ kernel' = IF Children(watcher.manifestTree) = {} THEN Reloaded("updated", OK)
                 ELSE kernel
    /\ UNCHANGED <<manifestFile, request>>
    /\ WatchStep

\* one iteration of the notification loop, in the order of the map's range;
\* updateFilesystemTreeOnChange returns after the last
WatcherNotifies ==
    /\ watcher.pc = "notify"
    /\ \E name \in watcher.notify :
          /\ watcher' = [watcher EXCEPT
                !.notify = @ \ {name},
                !.pc = IF watcher.notify = {name} THEN "idle" ELSE "notify"]
          /\ kernel' =
                [(IF watcher.notify = {name} THEN Reloaded("updated", OK) ELSE kernel)
                 EXCEPT !.notified =
                     @ \cup {Notification(kernel.reload.before.tree, name)}]
    /\ UNCHANGED <<manifestFile, fsRoot, request>>
    /\ WatchStep

\* dirent.Readdir of the root up to the sorted names: the range statement
\* loads manifestNode (the loads before it only size the slices)
ReaddirNames ==
    /\ request.pc \in {"idle", "done"}
    /\ kernel.calls < MaxCalls
    /\ \E node \in Loads(fsRoot) :
          request' = [NoRequest EXCEPT
                !.pc = IF SortedNames(node) = <<>> THEN "done" ELSE "entries",
                !.op = "Readdir", !.names = SortedNames(node), !.during = Loads(fsRoot)]
    /\ kernel' = [kernel EXCEPT !.calls = @ + 1]
    /\ UNCHANGED <<manifestFile, watcher, fsRoot>>
    /\ WatchStep

\* one iteration of the loop of dirent.Readdir over the names: manifestNode
\* is loaded again and the child of the name decides the mode
ReaddirEntry ==
    /\ request.pc = "entries"
    /\ \E node \in Loads(fsRoot) :
          LET name == Head(request.names)
              child == node[name]
          IN  request' =
                IF child = Nil
                THEN [request EXCEPT !.pc = "done", !.errno = "EIO", !.entries = <<>>,
                                     !.names = <<>>, !.during = @ \cup Loads(fsRoot)]
                ELSE [request EXCEPT
                        !.pc = IF Tail(request.names) = <<>> THEN "done" ELSE "entries",
                        !.entries = Append(@, [name |-> name, mode |-> Mode(child)]),
                        !.names = Tail(@), !.during = @ \cup Loads(fsRoot)]
    /\ UNCHANGED <<manifestFile, watcher, fsRoot, kernel>>
    /\ WatchStep

\* dirent.Lookup of a name in the root: one load of manifestNode
DirentLookup ==
    /\ request.pc \in {"idle", "done"}
    /\ kernel.calls < MaxCalls
    /\ \E name \in Names, node \in Loads(fsRoot) :
          request' = [NoRequest EXCEPT
                !.pc = "done", !.op = "Lookup", !.name = name, !.child = node[name],
                !.errno = IF node[name] = Nil THEN "ENOENT" ELSE "0",
                !.during = Loads(fsRoot)]
    /\ kernel' = [kernel EXCEPT !.calls = @ + 1]
    /\ UNCHANGED <<manifestFile, watcher, fsRoot>>
    /\ WatchStep

\* the steps of the watcher's goroutine
NextReload ==
    \/ OnManifestWrite
    \/ WatcherReads
    \/ WatcherPrimes
    \/ WatcherUpdatesManifest
    \/ WatcherUpdatesMtime
    \/ WatcherNotifies

NextWatcher ==
    WriteManifest(ManifestContents) \/ NextReload \/ ReaddirNames \/ ReaddirEntry \/ DirentLookup

SpecWatcher == InitWatcher /\ [][NextWatcher]_vars

-----------------------------------------------------------------------------
(* Claims about manifest reloads *)

\* C26: after a reload that swapped the tree the kernel was notified of
\* every entry of the root that the new manifest added (entry), removed
\* (delete) or replaced (entry)
C26_ReloadNotifiesEveryChange ==
    kernel.reload.outcome = "updated"
        => \A name \in Names :
              LET old == kernel.reload.before.tree[name]
                  new == fsRoot.manifestNode[name]
              IN  /\ (old = Nil /\ new # Nil)
                         => [kind |-> "entry", name |-> name] \in kernel.notified
                  /\ (old # Nil /\ new = Nil)
                         => [kind |-> "delete", name |-> name] \in kernel.notified
                  /\ (old # Nil /\ new # Nil /\ old # new)
                         => [kind |-> "entry", name |-> name] \in kernel.notified

\* the part of C26 that holds: every replaced entry is notified
C26_ReplacedEntriesAreNotified ==
    kernel.reload.outcome = "updated"
        => \A name \in Names :
              LET old == kernel.reload.before.tree[name]
                  new == fsRoot.manifestNode[name]
              IN  (old # Nil /\ new # Nil /\ old # new)
                      => [kind |-> "entry", name |-> name] \in kernel.notified

\* C27: a reload of a manifest with the recorded digest, or of a changed
\* manifest that is no JSON, returns no error and leaves the served tree,
\* the mtime of the root and the recorded digest as they were; a reload that
\* reads a valid manifest with another digest than the recorded one serves
\* its tree and records its digest
C27_SkippedReloadChangesNothing ==
    LET r == kernel.reload
        changed == ManifestDigest(r.read) # r.before.digest
    IN  /\ r.outcome \in {"same digest", "syntax error"}
               => /\ r.err = OK
                  /\ fsRoot.manifestNode = r.before.tree
                  /\ fsRoot.mtime = r.before.mtime
                  /\ watcher.manifestDigest = r.before.digest
                  /\ kernel.notified = {}
        /\ r.outcome = "same digest" => ~changed
        /\ r.outcome = "syntax error" => changed /\ r.read.kind = "syntax"
        /\ (r.outcome \notin {"none", "running"} /\ r.err # "io" /\ changed
                /\ r.read.kind = "valid")
               => /\ r.outcome = "updated"
                  /\ fsRoot.manifestNode = r.read.tree
                  /\ watcher.manifestDigest = ManifestDigest(r.read)

\* a changed manifest that is no JSON was skipped, and the reload after it
\* applied a valid manifest
C27_Witness ==
    /\ kernel.reload.prev = "syntax error"
    /\ kernel.reload.outcome = "updated"
    /\ fsRoot.manifestNode # kernel.reload.before.tree

\* C30: a Readdir or Lookup that ran while the manifest was reloaded returns
\* what one of the trees served during the request holds
C30_RequestSeesOneTree ==
    request.pc = "done"
        => \E t \in request.during :
              IF request.op = "Readdir"
              THEN request.errno = "0" /\ request.entries = ReaddirOf(t)
              ELSE request.child = t[request.name]

\* the part of C30 that holds: a Lookup returns the child of one tree
C30_LookupSeesOneTree ==
    (request.pc = "done" /\ request.op = "Lookup")
        => \E t \in request.during :
              /\ request.child = t[request.name]
              /\ request.errno = (IF t[request.name] = Nil THEN "ENOENT" ELSE "0")

-----------------------------------------------------------------------------
(* SpecCache: the checksum cache under the puts of FUSE handlers and the *)
(* priming of the manifest watcher                                       *)

CacheBlobs == {1, 2}

\* sizes stored with a digest: the size of the small blob and a different one
CacheSizes == {SmallSize, SmallSize + 1}

\* digests a prefetch or a download learns: a primary hash and a size
CacheDigests == {NewDigest(HashOf(digestFunction, b), n, digestFunction) : b \in CacheBlobs, n \in CacheSizes}

\* the calls of PutIntegrity by handlers: the integrity of the first leaf
\* and an integrity of the same blob with the checksums of all algorithms,
\* with digests of two sizes, and the primary checksum of another blob
CachePuts ==
    {<<IntegrityOf(1, {digestFunction, "sha384"}),
       NewDigest(HashOf(digestFunction, 1), SmallSize + 1, digestFunction)>>,
     <<IntegrityOf(1, Algorithms),
       NewDigest(HashOf(digestFunction, 1), SmallSize, digestFunction)>>,
     <<IntegrityOf(2, {digestFunction}),
       NewDigest(HashOf(digestFunction, 2), SizeOf(2), digestFunction)>>}

\* the integrities that are looked up
CacheIntegrities == {p[1] : p \in CachePuts} \cup {IntegrityOf(1, {"sha384"})}

\* the manifests of a mount whose root holds at most the first name
CacheTrees == {t \in Trees : t[NameOrder[2]] = Nil}

\* the contents written to the manifest file of such a mount
CacheContents == {c \in ManifestContents : c.tree \in CacheTrees}

\* the seeds of a cache: one under which no two pairs collide, one under
\* which a hash has the same sum with the identifiers of two algorithms,
\* and one under which two hashes of a shard have the same sum with one
\* identifier
Seeds ==
    {NoCollision,
     {<<HashOf(digestFunction, 1), Identifier(digestFunction)>>,
      <<HashOf(digestFunction, 1), Identifier("sha384")>>},
     {<<HashOf(digestFunction, 1), Identifier(digestFunction)>>,
      <<HashOf(digestFunction, 2), Identifier(digestFunction)>>}}

\* NewCache and watcher.New; the handlers of FUSE requests are idle, and
\* the manifest file will be written once
InitCache ==
    /\ digestFunction = "sha256"
    /\ seed \in Seeds
    /\ goroutines = [t \in 1..NGoroutines |-> NoPut]
    /\ Elsewhere
    /\ \E tree \in CacheTrees : WatcherNew(tree, MaxManifestWrites - 1)

\* a handler learns a digest for an integrity and calls PutIntegrity
\* (Prefetch, Materialize, getOrLearnDigest)
CachePutIntegrity(t) ==
    /\ nWrites < MaxWrites
    /\ goroutines[t].pc = "idle"
    /\ \E p \in CachePuts :
          goroutines' = [goroutines EXCEPT ![t] = PutCall(p[1], p[2])]
    /\ nWrites' = nWrites + 1
    /\ UNCHANGED <<confVars, prefVars, firstLearned, lastWrites, lastPut, manifestLeafs,
                   diskVars, streamVars, watchVars>>

\* one iteration of the loop of ChecksumCache.PutIntegrity in handler t: a
\* PutSlice, which holds the shard's lock from start to end
CachePutSlice(t) ==
    /\ goroutines[t].pc = "put"
    /\ \E f \in {goroutines[t]} :
          \E r \in {PutIntegrityStep(cache, f)} :
              /\ Learn(r.cache, {<<r.key, f.digest, r.pair>>})
              /\ lastPut' = IF r.returned THEN Put(f) ELSE lastPut
              /\ goroutines' = [u \in DOMAIN goroutines |->
                                    IF u = t THEN r.call
                                    ELSE Raced(goroutines[u], r.key, f.digest)]
              /\ watcher' = [watcher EXCEPT !.put = Raced(@, r.key, f.digest)]
    /\ UNCHANGED <<nWrites, manifestFile, fsRoot, kernel, request>>
    /\ UNCHANGED <<confVars, localCAS, remoteCAS, last, nSteps, manifestLeafs, diskVars,
                   streamVars>>

NextCache ==
    \/ WriteManifest(CacheContents)
    \/ NextReload
    \/ \E t \in 1..NGoroutines : CachePutIntegrity(t) \/ CachePutSlice(t)

SpecCache == InitCache /\ [][NextCache]_vars

-----------------------------------------------------------------------------
(* Claims about the checksum cache *)

\* C6: when PutIntegrity(I, D) returns and no other call has stored another
\* digest in an entry the call had put, then for every algorithm present in
\* I the lookup with the integrity that carries only I's checksum for that
\* algorithm hits and returns D, and so does the lookup with the full
\* integrity
C6_PutThenLookup ==
    [][(lastPut'.n # lastPut.n /\ ~lastPut'.raced) =>
          /\ \A a \in Algorithms :
                lastPut'.integrity[a] # NilHash =>
                    FromIntegrity(cache', JustAlgorithm(lastPut'.integrity, a))
                        = [digest |-> lastPut'.digest, ok |-> TRUE]
          /\ FromIntegrity(cache', lastPut'.integrity)
                 = [digest |-> lastPut'.digest, ok |-> TRUE]]_vars

\* C6 witness: the call of a handler with an integrity of all four
\* checksums has just returned, undisturbed, while another call is in
\* progress
C6_Witness ==
    /\ lastPut.valid
    /\ ~lastPut.raced
    /\ \A a \in Algorithms : lastPut.integrity[a] # NilHash
    /\ \A a \in Algorithms :
          FromIntegrity(cache, JustAlgorithm(lastPut.integrity, a)).digest = lastPut.digest
    /\ \E t \in DOMAIN goroutines : goroutines[t].pc = "put"

\* C7 as stated: every key keeps the digest that was first learned for it.
C7_FirstLearnedIsKept ==
    \A k \in DOMAIN firstLearned : k \in DOMAIN cache /\ cache[k] = firstLearned[k]

\* C7 amended: a key that has been learned never becomes a miss again, and
\* its digest changes only when a later write stores another digest under
\* that very key (last writer wins).
C7_GrowOnlyLastWriterWins ==
    [][\A k \in DOMAIN cache :
          /\ k \in DOMAIN cache'
          /\ cache'[k] # cache[k]
                 => \E w \in lastWrites' : w[1] = k /\ w[2] = cache'[k]]_vars

\* C7 witness: the reload of a manifest with a changed size hint has
\* re-primed a key with a digest that differs from the digest first learned
\* for it
C7_Witness ==
    /\ kernel.reload.outcome = "updated"
    /\ \E k \in DOMAIN cache, w \in lastWrites :
          /\ cache[k] # firstLearned[k]
          /\ w[1] = k
          /\ w[2] = cache[k]
          /\ w[2].size = SmallSize + 1

\* the hashes of the cached integrities
CacheHashes == {HashOf(a, b) : a \in Algorithms, b \in CacheBlobs}

\* C28: a lookup by hash and algorithm identifier hits only if an entry was
\* stored under that very pair: the empty cache misses for every integrity,
\* and a pair that misses hits after a step only if the step stored it, so
\* a hash stored under one identifier misses under every other identifier
C28_HitOnlyForStoredKey ==
    /\ [](cache = EmptyCache => \A i \in CacheIntegrities : ~FromIntegrity(cache, i).ok)
    /\ [][\A h \in CacheHashes, a \in Algorithms :
            (GetSlice(cache', h, Identifier(a)).ok /\ ~GetSlice(cache, h, Identifier(a)).ok)
                => \E w \in lastWrites' : w[3] = <<h, Identifier(a)>>]_vars

\* the part of C28 that holds: a pair that misses hits after a step only if
\* the step stored an entry under the key of the pair
C28_HitOnlyForStoredSum ==
    [][\A h \in CacheHashes, a \in Algorithms :
          (GetSlice(cache', h, Identifier(a)).ok /\ ~GetSlice(cache, h, Identifier(a)).ok)
              => \E w \in lastWrites' : w[1] = CacheKey(h, Identifier(a))]_vars

-----------------------------------------------------------------------------
(* Specification of a handle created at an offset, with a racing Close *)

\* the offsets a handle is created with
InitialOffsets == {0, 3}

InitRace ==
    /\ digestFunction = "sha256"
    /\ seed = NoCollision
    /\ goroutines = <<>>
    /\ queue = [kind |-> "none"]
    /\ digestHashAttributeName = NoAttributeName
    /\ manifestFile = [kind |-> "none"]
    /\ watcher = [kind |-> "none"]
    /\ fsRoot = [kind |-> "none"]
    /\ kernel = [kind |-> "none"]
    /\ request = Unlocked
    /\ remoteConfigured = TRUE
    /\ asset = [integrity |-> EmptyIntegrity, sizeHint |-> 0 - 1]
    /\ cache = EmptyCache
    /\ localCAS = EmptyDisk
    /\ remoteCAS = EmptyRemote
    /\ last = NoStreamTransfer
    /\ nSteps = 0
    /\ firstLearned = EmptyCache
    /\ lastWrites = {}
    /\ lastPut = [valid |-> FALSE]
    /\ nWrites = 0
    /\ manifestLeafs = <<>>
    /\ staging = <<>>
    /\ streams = <<>>
    /\ \E offset \in InitialOffsets : handle = NewStreamingFileHandle(StreamSize, offset)
    /\ lastRead = NoRead

NextRace ==
    \/ HandleReadAt
    \/ HandleRead
    \/ HandleSeek
    \/ HandleConnects
    \/ HandleSeekTests
    \/ HandleSeekCancels
    \/ HandleSeekClears
    \/ HandleReconnects
    \/ HandleStores
    \/ HandleStoresCancel
    \/ HandleLoads
    \/ HandleRecvs
    \/ HandleClose
    \/ HandleCloseCancels
    \/ HandleCloseClearsCancel
    \/ HandleCloseClearsReader

SpecRace == InitRace /\ [][NextRace]_vars

\* C31: a Close that runs while a ReadAt is in progress corrupts nothing:
\* no operation panics, and once the handle is closed and the ReadAt has
\* returned the handle holds no stream and every stream opened for it is
\* cancelled
C31_CloseRacingReadAtIsSafe ==
    /\ request.pc # "panicked"
    /\ (handle.closed /\ request.pc = "idle")
           => /\ handle.reader = 0
              /\ \A i \in DOMAIN streams : streams[i].cancelled

\* C35: whenever the handle holds a stream and no operation is in progress,
\* the tracked sourceOffset is the true position of that stream: the offset
\* it was opened at plus the bytes consumed from it
C35_SourceOffsetIsStreamPosition ==
    (request.pc = "idle" /\ handle.reader # 0)
        => handle.sourceOffset
               = streams[handle.reader].start + streams[handle.reader].out

-----------------------------------------------------------------------------
(* SpecStaging: the staging files of the writers of the local Disk CAS *)

\* Disk.BatchUpdateBlobs: for every item a staging file is created, written
\* and closed; the responses hold a status code per item
RECURSIVE BatchUpdateBlobs(_, _, _, _, _, _)
BatchUpdateBlobs(stg, local, items, alg, i, responses) ==
    IF i > Len(items)
    THEN [err |-> IF \E k \in DOMAIN responses : responses[k] # "OK"
                  THEN "batch response has non-zero status" ELSE OK,
          staging |-> stg, local |-> local, responses |-> responses]
    ELSE Only({
            IF created.err # OK
            THEN BatchUpdateBlobs(stg, local, items, alg, i + 1,
                                  Append(responses, "INTERNAL"))
            ELSE Only({
                    BatchUpdateBlobs(closed.staging, closed.local, items, alg, i + 1,
                        Append(responses,
                               IF items[i].io.write = "permission" THEN "PERMISSION_DENIED"
                               ELSE IF items[i].io.write # "nil" THEN "INTERNAL"
                               ELSE IF closed.err # OK THEN "INTERNAL"
                               ELSE "OK"))
                    : closed \in {blobFinalizerCloseFile(
                                      Written(created.staging, items[i].data, items[i].io),
                                      Len(created.staging), local, alg, items[i].io)}})
            : created \in {stagingFile(stg, items[i].digest, items[i].io)}})

\* the streaming branch of Prefetcher.casRemoteToLocalTransferPart: open the
\* remote stream, open the staging writer, copy, compare the length; the
\* deferred writer.Close() runs on every path after WriteStream succeeded
\* and its error is dropped.  data is what the server streams, copy is the
\* error of the reader ("nil", "rpc", "canceled").
transferToStaging(stg, local, digest, data, alg, env, io) ==
    IF ~env.connectOK THEN [err |-> "rpc", staging |-> stg, local |-> local]
    ELSE Only({
            IF created.err # OK
            THEN [err |-> created.err, staging |-> stg, local |-> local]
            ELSE Only({
                    [err |-> IF io.write # "nil" THEN "write"
                             ELSE IF env.copy # "nil" THEN env.copy
                             ELSE IF SizeOf(data) # digest.size THEN "expected to read"
                             ELSE OK,
                     staging |-> closed.staging, local |-> closed.local]
                    : closed \in {blobFinalizerCloseFile(
                                      Written(created.staging, data,
                                              [io EXCEPT !.write =
                                                   IF env.copy # "nil" THEN env.copy ELSE @]),
                                      Len(created.staging), local, alg, io)}})
            : created \in {stagingFile(stg, digest, io)}})

\* the items of a batch: blob 1 or another blob under the digest of blob 1
\* or under its hash with a wrong size
StagedItems ==
    [digest : {NewDigest(HashOf(digestFunction, 1), n, digestFunction) : n \in {SizeOf(1), SizeOf(1) + 1}},
     data : {1, 2}, io : StagingIOs]

StagedBatches == UNION {[1..n -> StagedItems] : n \in 1..2}

TransferToStagingEnvs == [connectOK : BOOLEAN, copy : {"nil", "rpc", "canceled"}]

StagingStep(op) ==
    /\ nSteps < MaxDiskSteps
    /\ nSteps' = nSteps + 1
    /\ UNCHANGED <<cfgVars, watchVars, streamVars, histVars, cache, remoteCAS>>

\* Disk.BatchUpdateBlobs is called with one or two items
StagedBatchUpdate ==
    /\ \E items \in StagedBatches :
          \E r \in {BatchUpdateBlobs(staging, localCAS, items, digestFunction, 1, <<>>)} :
              /\ staging' = r.staging
              /\ localCAS' = r.local
              /\ last' = [op |-> "BatchUpdateBlobs", err |-> r.err,
                          responses |-> r.responses]
    /\ StagingStep("BatchUpdateBlobs")

\* a large blob is streamed from the remote CAS to the local CAS
StagedTransfer ==
    /\ \E data \in Blobs, env \in TransferToStagingEnvs, io \in StagingIOs :
          \E r \in {transferToStaging(staging, localCAS, DigestOfBlob(digestFunction, 2),
                                      data, digestFunction, env, io)} :
              /\ staging' = r.staging
              /\ localCAS' = r.local
              /\ last' = [op |-> "transfer", err |-> r.err, copy |-> env.copy]
    /\ StagingStep("transfer")

\* the writer of a staging file opened by Disk.WriteStream is closed
WriterClose ==
    /\ \E i \in DOMAIN staging, io \in StagingIOs :
          \E r \in {blobFinalizerCloseFile(staging, i, localCAS, digestFunction, io)} :
              /\ staging' = r.staging
              /\ localCAS' = r.local
              /\ last' = [op |-> "Close", err |-> r.err, closed |-> i]
    /\ StagingStep("Close")

NextStaging ==
    \/ DiskWriteStream
    \/ StagingWrite
    \/ WriterClose
    \/ StagedBatchUpdate
    \/ StagedTransfer

SpecStaging == InitDisk /\ [][NextStaging]_vars

\* C33: a staging file exists only while its write is in progress: a
\* batch update and a streamed transfer leave the staging directory as they
\* found it on every exit path, and closing a writer removes exactly its
\* staging file, whatever the outcome of the close
C33_NoStagingFileOutlivesItsWrite ==
    [][/\ last'.op \in {"BatchUpdateBlobs", "transfer"} => staging' = staging
       /\ last'.op = "Close" =>
              /\ Len(staging') = Len(staging) - 1
              /\ \A j \in DOMAIN staging' :
                     staging'[j] = staging[IF j < last'.closed THEN j ELSE j + 1]]_vars

\* C33 witness: while another write is in progress, a batch update of two
\* items has returned, the first item failed validation and the second was
\* promoted
C33_Witness ==
    /\ last.op = "BatchUpdateBlobs"
    /\ last.responses = <<"INTERNAL", "OK">>
    /\ Len(staging) = 1
    /\ DOMAIN localCAS # {}

\* C33 witness of a cancelled transfer: the copy was cancelled and no
\* staging file is left
C33_CancelledTransfer ==
    /\ last.op = "transfer"
    /\ last.err = "canceled"
    /\ staging = <<>>

-----------------------------------------------------------------------------
(* SpecReader: successive reads of one byteStreamReadCloser *)

\* number of reads of the reader in a behaviour
MaxReads == 5

\* size of the streamed blob
ReaderSize == 6

\* sizes of the server's chunks, the empty chunk included
ReaderChunks == {0, 1, 3}

\* sizes of the consumer's buffers
ReaderLens == {1, 2, 4}

InitReader ==
    /\ digestFunction = "sha256"
    /\ seed = NoCollision
    /\ goroutines = <<>>
    /\ digestHashAttributeName = NoAttributeName
    /\ NoWatcher
    /\ remoteConfigured = TRUE
    /\ asset = [integrity |-> EmptyIntegrity, sizeHint |-> 0 - 1]
    /\ cache = EmptyCache
    /\ localCAS = EmptyDisk
    /\ remoteCAS = EmptyRemote
    /\ last = [op |-> "none", err |-> OK, handed |-> 0, before |-> 0]
    /\ nSteps = 0
    /\ firstLearned = EmptyCache
    /\ lastWrites = {}
    /\ lastPut = [valid |-> FALSE]
    /\ nWrites = 0
    /\ manifestLeafs = <<>>
    /\ staging = <<>>
    /\ streams = <<NewStream("reader", ReaderSize, 0, 0, 1)>>
    /\ handle = NoHandle
    /\ lastRead = NoRead

\* byteStreamReadCloser.Read with a buffer of len bytes while the server's
\* next chunk has c bytes; last.handed counts the bytes handed out, the sum
\* of the returned counts
ReaderRead ==
    /\ nSteps < MaxReads
    /\ \E c \in ReaderChunks, len \in ReaderLens :
          \E r \in {byteStreamRead([streams[1] EXCEPT !.chunk = c], len)} :
              /\ streams' = <<r.stream>>
              /\ lastRead' = [op |-> "Read", len |-> len, n |-> r.n, err |-> r.err,
                              from |-> r.from]
              /\ last' = [op |-> "Read", err |-> OK, handed |-> last.handed + r.n,
                          before |-> last.handed]
    /\ nSteps' = nSteps + 1
    /\ UNCHANGED <<cfgVars, watchVars, histVars, diskVars, cache, localCAS, remoteCAS, handle>>

\* the connection of the reader's stream breaks
ReaderBreaks ==
    /\ streams[1].breakAt < 0
    /\ ~streams[1].eof
    /\ streams' = [streams EXCEPT ![1].breakAt = streams[1].recvd]
    /\ lastRead' = [op |-> "break"]
    /\ UNCHANGED <<cfgVars, watchVars, histVars, diskVars, prefVars, handle>>

NextReader == ReaderRead \/ ReaderBreaks

SpecReader == InitReader /\ [][NextReader]_vars

\* C34: the bytes handed out by successive reads are the chunks' data in
\* order: every byte received from the server was handed out or waits in the
\* overflow buffer, none twice, and a read hands out the bytes that follow
\* those handed out before it, also when the end of the stream or an error
\* arrives during the read
C34_ReadsHandOutTheChunksInOrder ==
    /\ last.handed + streams[1].buf = streams[1].recvd
    /\ (lastRead.op = "Read" /\ lastRead.n > 0)
           => lastRead.from = streams[1].start + last.before

\* the part of C34 that holds: as long as no Recv failed, nothing is lost,
\* duplicated or reordered, and the reader that reported EOF handed out the
\* whole stream
C34_NothingLostBeforeAnError ==
    (streams[1].breakAt < 0)
        => /\ last.handed + streams[1].buf = streams[1].recvd
           /\ (lastRead.op = "Read" /\ lastRead.n > 0)
                  => lastRead.from = streams[1].start + last.before
           /\ (lastRead.op = "Read" /\ lastRead.err = "EOF") => last.handed = ReaderSize

-----------------------------------------------------------------------------
(* SpecQueue: the prefetcher's work queue and the goroutines that use it *)

\* workqueueBufferSize: the capacity of the requests channel
workqueueBufferSize == 128

\* q.workers: the number of worker goroutines
Workers == 2
\* number of Enqueue calls in a behaviour
MaxRequests == 3
\* number of Stop calls in a behaviour
Stoppers == 2

\* the numbers of callbacks a request is enqueued with
CallbackCounts == {0, 2}

Requests == 1..MaxRequests

\* newWorkQueue: an open channel without requests, no worker.  The fields
\* that are not in the struct: start holds the position of the Start call
\* (0: not called, w in 1..Workers: after q.wg.Add, about to launch worker
\* w, Workers + 1: returned), worker the position of each worker goroutine,
\* stop that of each Stop call, sending the Enqueue calls that have not sent
\* yet; enqueued, beforeStop, startedAtStop, handled and callbacks record
\* what happened; panicked tells that a goroutine panicked.
newWorkQueue ==
    [kind |-> "workQueue", start |-> 0, requests |-> <<>>, closed |-> FALSE,
     closes |-> 0, wg |-> 0, once |-> "new",
     worker |-> [w \in 1..Workers |-> [pc |-> "none", req |-> 0, k |-> 0]],
     stop |-> [t \in 1..Stoppers |-> "none"],
     stopCalled |-> FALSE, startedAtStop |-> FALSE,
     sending |-> {}, calls |-> 0, due |-> [r \in Requests |-> 0],
     enqueued |-> {}, beforeStop |-> {},
     handled |-> [r \in Requests |-> 0], callbacks |-> [r \in Requests |-> 0],
     panicked |-> FALSE]

\* workQueue.Start begins: q.wg.Add(q.workers)
workQueueStart(q) ==
    [q EXCEPT !.start = 1, !.wg = @ + Workers]

\* one iteration of `for range q.workers` in Start: the go statement that
\* launches the next worker
workQueueGo(q) ==
    [q EXCEPT !.start = @ + 1,
              !.worker[q.start] = [pc |-> "recv", req |-> 0, k |-> 0]]

\* a worker at `for req := range q.requests`: it can take a request, or
\* leave the loop when the channel is closed and empty
CanReceive(q) == q.requests # <<>> \/ q.closed

\* the receive of the worker's range loop: the head of the channel, or the
\* end of the loop and the deferred q.wg.Done()
workerReceive(q, w) ==
    IF q.requests # <<>>
    THEN [q EXCEPT !.requests = Tail(@),
                   !.worker[w] = [pc |-> "handle", req |-> Head(q.requests), k |-> 0]]
    ELSE [q EXCEPT !.wg = @ - 1, !.worker[w] = [pc |-> "done", req |-> 0, k |-> 0]]

\* q.handler(ctx, req.message) returns
workerHandle(q, w) ==
    LET r == q.worker[w].req
    IN  [q EXCEPT !.handled[r] = @ + 1,
                  !.worker[w].pc = IF q.due[r] = 0 THEN "recv" ELSE "callback"]

\* one iteration of `for _, callback := range req.callbacks`
workerCallback(q, w) ==
    LET r == q.worker[w].req
    IN  [q EXCEPT !.callbacks[r] = @ + 1,
                  !.worker[w].k = @ + 1,
                  !.worker[w].pc = IF q.worker[w].k + 1 = q.due[r] THEN "recv" ELSE "callback"]

\* a Stop call begins; the first one finds the requests enqueued so far, and
\* a queue on which Start has or has not added its workers to the wait group
stopCall(q, t) ==
    [q EXCEPT !.stop[t] = "once", !.stopCalled = TRUE,
              !.beforeStop = IF q.stopCalled THEN @ ELSE q.enqueued,
              !.startedAtStop = IF q.stopCalled THEN @ ELSE q.start > 0]

\* q.stopOnce.Do(func() { close(q.requests) }): the first call closes the
\* channel, closing a closed channel panics
stopOnceDo(q, t) ==
    IF q.once = "new"
    THEN [q EXCEPT !.once = "done", !.closed = TRUE, !.closes = @ + 1,
                   !.panicked = @ \/ q.closed, !.stop[t] = "wait"]
    ELSE [q EXCEPT !.stop[t] = "wait"]

\* q.wg.Wait() returns: the counter is zero
Wait(q) == q.wg = 0

\* an Enqueue call begins: the request and its callbacks
enqueueCall(q, n) ==
    [q EXCEPT !.calls = @ + 1, !.sending = @ \cup {q.calls + 1}, !.due[q.calls + 1] = n]

\* q.requests <- workRequest{...} can proceed: the channel is closed, or its
\* buffer has room
CanSend(q) == q.closed \/ Len(q.requests) < workqueueBufferSize

\* the send of Enqueue: a send on a closed channel panics
enqueueSend(q, r) ==
    IF q.closed THEN [q EXCEPT !.panicked = TRUE]
    ELSE [q EXCEPT !.requests = Append(@, r), !.sending = @ \ {r},
                   !.enqueued = @ \cup {r}]

InitQueue ==
    /\ digestFunction = "sha256"
    /\ seed = NoCollision
    /\ goroutines = <<>>
    /\ digestHashAttributeName = NoAttributeName
    /\ queue = newWorkQueue
    /\ manifestFile = [kind |-> "none"]
    /\ watcher = [kind |-> "none"]
    /\ fsRoot = [kind |-> "none"]
    /\ kernel = [kind |-> "none"]
    /\ request = [pc |-> "none"]
    /\ remoteConfigured = TRUE
    /\ asset = [integrity |-> EmptyIntegrity, sizeHint |-> 0 - 1]
    /\ cache = EmptyCache
    /\ localCAS = EmptyDisk
    /\ remoteCAS = EmptyRemote
    /\ last = [op |-> "none", err |-> OK]
    /\ nSteps = 0
    /\ firstLearned = EmptyCache
    /\ lastWrites = {}
    /\ lastPut = [valid |-> FALSE]
    /\ nWrites = 0
    /\ manifestLeafs = <<>>
    /\ staging = <<>>
    /\ streams = <<>>
    /\ handle = NoHandle
    /\ lastRead = NoRead

\* a step of the work queue: a goroutine that has not panicked runs
QueueStep(q) ==
    /\ ~queue.panicked
    /\ queue' = q
    /\ UNCHANGED <<digestFunction, remoteConfigured, asset, digestHashAttributeName, seed,
                   goroutines, prefVars, histVars, diskVars, streamVars, watchVars>>

\* workQueue.Start is called, once, by the owner of the queue, at any time:
\* before or after Enqueue and Stop calls, or while they run
QueueStart ==
    /\ queue.start = 0
    /\ QueueStep(workQueueStart(queue))

\* Start launches its next worker
QueueStartGoes ==
    /\ queue.start \in 1..Workers
    /\ QueueStep(workQueueGo(queue))

WorkerReceives(w) ==
    /\ queue.worker[w].pc = "recv"
    /\ CanReceive(queue)
    /\ QueueStep(workerReceive(queue, w))

WorkerHandles(w) ==
    /\ queue.worker[w].pc = "handle"
    /\ QueueStep(workerHandle(queue, w))

WorkerCallsBack(w) ==
    /\ queue.worker[w].pc = "callback"
    /\ QueueStep(workerCallback(queue, w))

\* workQueue.Stop is called, on a queue that was started or not
StopCalled(t) ==
    /\ queue.stop[t] = "none"
    /\ QueueStep(stopCall(queue, t))

StopCloses(t) ==
    /\ queue.stop[t] = "once"
    /\ QueueStep(stopOnceDo(queue, t))

StopReturns(t) ==
    /\ queue.stop[t] = "wait"
    /\ Wait(queue)
    /\ QueueStep([queue EXCEPT !.stop[t] = "returned"])

\* workQueue.Enqueue is called
EnqueueCalled ==
    /\ queue.calls < MaxRequests
    /\ \E n \in CallbackCounts : QueueStep(enqueueCall(queue, n))

EnqueueSends(r) ==
    /\ r \in queue.sending
    /\ CanSend(queue)
    /\ QueueStep(enqueueSend(queue, r))

WorkerStep(w) == WorkerReceives(w) \/ WorkerHandles(w) \/ WorkerCallsBack(w)

StopStep(t) == StopCloses(t) \/ StopReturns(t)

NextQueue ==
    \/ QueueStart
    \/ QueueStartGoes
    \/ \E w \in 1..Workers : WorkerStep(w)
    \/ \E t \in 1..Stoppers : StopCalled(t) \/ StopStep(t)
    \/ EnqueueCalled
    \/ \E r \in Requests : EnqueueSends(r)

SpecQueue == InitQueue /\ [][NextQueue]_vars

\* the goroutines of a running process are scheduled: a Start call that has
\* begun, a worker, a Stop call and an Enqueue call that can take a step
\* will take it, and a handler and a callback return.  Nothing makes the
\* owner of the queue call Start.
SpecQueueFair ==
    /\ SpecQueue
    /\ WF_vars(QueueStartGoes)
    /\ \A w \in 1..Workers : WF_vars(WorkerStep(w))
    /\ \A t \in 1..Stoppers : WF_vars(StopStep(t))
    /\ \A r \in Requests : WF_vars(EnqueueSends(r))

\* no request is handled twice or has a callback invoked twice; when a Stop
\* call has returned, every request enqueued before Stop was called has been
\* handled and all of its callbacks were invoked; the channel is closed at
\* most once
HandledBeforeStopReturns ==
    /\ \A r \in Requests :
          /\ queue.handled[r] <= 1
          /\ queue.callbacks[r] <= queue.due[r]
    /\ (\E t \in 1..Stoppers : queue.stop[t] = "returned")
           => \A r \in queue.beforeStop :
                  queue.handled[r] = 1 /\ queue.callbacks[r] = queue.due[r]
    /\ queue.closes <= 1

\* C36: every request enqueued before Stop is called is handled exactly once
\* with all of its callbacks invoked before Stop returns, two Stop calls,
\* one after the other or at the same time, close the channel once, and
\* every Stop call returns unless a goroutine panicked
C36_EnqueuedBeforeStopIsHandledOnce ==
    /\ []HandledBeforeStopReturns
    /\ \A t \in 1..Stoppers :
          (queue.stop[t] = "once") ~> (queue.stop[t] = "returned" \/ queue.panicked)

\* the part of C36 that holds: when Start had added its workers to the wait
\* group before Stop was first called, every request enqueued before that
\* call is handled once with all of its callbacks invoked before a Stop call
\* returns; on every queue no request is handled twice, the channel is
\* closed at most once and every Stop call returns unless a goroutine
\* panicked
HandledBeforeStopOfStartedReturns ==
    /\ \A r \in Requests :
          /\ queue.handled[r] <= 1
          /\ queue.callbacks[r] <= queue.due[r]
    /\ (queue.startedAtStop /\ \E t \in 1..Stoppers : queue.stop[t] = "returned")
           => \A r \in queue.beforeStop :
                  queue.handled[r] = 1 /\ queue.callbacks[r] = queue.due[r]
    /\ queue.closes <= 1

C36_StartedQueueHandlesOnce ==
    /\ []HandledBeforeStopOfStartedReturns
    /\ \A t \in 1..Stoppers :
          (queue.stop[t] = "once") ~> (queue.stop[t] = "returned" \/ queue.panicked)

\* a started queue on which both Stop calls have returned: three requests
\* were enqueued before the first of them was called, one with callbacks
C36_StartedQueueStopped ==
    /\ queue.startedAtStop
    /\ \A t \in 1..Stoppers : queue.stop[t] = "returned"
    /\ queue.beforeStop = Requests
    /\ \E r \in Requests : queue.callbacks[r] = 2
    /\ queue.closes = 1

\* a queue that was never started on which a Stop call has returned with a
\* request in the channel
C36_StopReturnedOnUnstartedQueue ==
    /\ queue.start = 0
    /\ \E t \in 1..Stoppers : queue.stop[t] = "returned"
    /\ queue.beforeStop # {}
    /\ queue.requests # <<>>

\* C37: Enqueue never crashes the process and never blocks forever: no send
\* hits a closed channel, and every Enqueue call returns
C37_EnqueueNeitherPanicsNorBlocks ==
    /\ [](~queue.panicked)
    /\ \A r \in Requests : (r \in queue.sending) ~> (r \in queue.enqueued)

\* the part of C37 that holds: an Enqueue on a queue that is not stopped
\* returns, and no send panics before Stop is called
C37_EnqueueReturnsWhileNotStopped ==
    /\ [](queue.panicked => queue.stopCalled)
    /\ \A r \in Requests :
          (r \in queue.sending) ~> (r \in queue.enqueued \/ queue.stopCalled)

-----------------------------------------------------------------------------
(* SpecBatchRead: batch reads of the local Disk CAS *)

\* the nil byte slice
NoData == 0 - 1

\* Disk.BatchReadBlobs from the i-th digest on: os.ReadFile of the blob's
\* path; readable[i] tells whether a file that exists can be read.  A
\* response is appended for a file that does not exist and for another
\* error, and after that the response with the data and the status OK.
RECURSIVE BatchReadBlobs(_, _, _, _, _)
BatchReadBlobs(local, digests, readable, i, responses) ==
    IF i > Len(digests)
    THEN [responses |-> responses,
          err |-> IF \E k \in DOMAIN responses :
                        responses[k].data = NoData \/ responses[k].status # "OK"
                  THEN "batch response has non-zero status" ELSE OK]
    ELSE LET path == blobPath(digests[i].hash)
             data == IF path \in DOMAIN local /\ readable[i] THEN local[path].content
                     ELSE NoData
             failed == IF path \notin DOMAIN local
                       THEN <<[digest |-> digests[i], data |-> NoData,
                               status |-> "NOT_FOUND"]>>
                       ELSE IF ~readable[i]
                       THEN <<[digest |-> digests[i], data |-> NoData,
                               status |-> "UNKNOWN"]>>
                       ELSE <<>>
         IN  BatchReadBlobs(local, digests, readable, i + 1,
                            responses \o failed
                                \o <<[digest |-> digests[i], data |-> data,
                                      status |-> "OK"]>>)

\* the digests of a batch read: one or two of the digests of blobs 1 and 2
ReadLists == UNION {[1..n -> {DigestOfBlob(digestFunction, b) : b \in {1, 2}}] : n \in 1..2}

\* Disk.BatchReadBlobs is called
DiskBatchRead ==
    /\ nSteps < MaxDiskSteps
    /\ \E digests \in ReadLists :
          \E readable \in [DOMAIN digests -> BOOLEAN] :
              \E r \in {BatchReadBlobs(localCAS, digests, readable, 1, <<>>)} :
                  last' = [op |-> "BatchReadBlobs", err |-> r.err, digests |-> digests,
                           readable |-> readable, responses |-> r.responses]
    /\ nSteps' = nSteps + 1
    /\ UNCHANGED <<cfgVars, watchVars, streamVars, histVars, diskVars, cache, localCAS,
                   remoteCAS>>

NextBatchRead == DiskBatchUpdate \/ DiskBatchRead

SpecBatchRead == InitDisk /\ [][NextBatchRead]_vars

\* C38: a batch read returns one entry per requested digest, in request
\* order, the blob's bytes with the status OK or no bytes with another
\* status, and the call reports a batch error exactly when some entry is not
\* OK
C38_BatchReadOneEntryPerDigest ==
    last.op = "BatchReadBlobs"
        => /\ Len(last.responses) = Len(last.digests)
           /\ \A i \in DOMAIN last.digests :
                  /\ last.responses[i].digest = last.digests[i]
                  /\ \/ /\ last.responses[i].status = "OK"
                        /\ blobPath(last.digests[i].hash) \in DOMAIN localCAS
                        /\ last.responses[i].data
                               = localCAS[blobPath(last.digests[i].hash)].content
                     \/ /\ last.responses[i].status # "OK"
                        /\ last.responses[i].data = NoData
           /\ last.err # OK <=> \E i \in DOMAIN last.responses :
                                    last.responses[i].status # "OK"

\* the part of C38 that holds: when every requested blob is there and
\* readable, the entries are the blobs' bytes in request order, and the call
\* reports an error exactly when a blob is missing or unreadable
C38_BatchReadOfPresentBlobs ==
    last.op = "BatchReadBlobs"
        => LET good == \A i \in DOMAIN last.digests :
                           /\ blobPath(last.digests[i].hash) \in DOMAIN localCAS
                           /\ last.readable[i]
           IN  /\ good <=> last.err = OK
               /\ good => /\ Len(last.responses) = Len(last.digests)
                          /\ \A i \in DOMAIN last.digests :
                                 /\ last.responses[i].digest = last.digests[i]
                                 /\ last.responses[i].status = "OK"
                                 /\ last.responses[i].data
                                        = localCAS[blobPath(last.digests[i].hash)].content

-----------------------------------------------------------------------------
(* SpecPutRace: two threads call PutIntegrity for one integrity *)

\* the threads
PutThreads == {1, 2}

\* the integrities with more than one checksum
MultiIntegrities ==
    {IntegrityOf(b, s) : b \in CacheBlobs, s \in {{"sha256", "sha384"}, Algorithms}}

\* request holds the two calls: the integrity, each thread's digest, and the
\* index in Items of the checksum the thread's loop puts next
InitPutRace ==
    /\ digestFunction = "sha256"
    /\ seed = NoCollision
    /\ goroutines = <<>>
    /\ digestHashAttributeName = NoAttributeName
    /\ queue = [kind |-> "none"]
    /\ manifestFile = [kind |-> "none"]
    /\ watcher = [kind |-> "none"]
    /\ fsRoot = [kind |-> "none"]
    /\ kernel = [kind |-> "none"]
    /\ \E i \in MultiIntegrities, d1 \in CacheDigests, d2 \in CacheDigests :
          /\ d1 # d2
          /\ request = [pc |-> "put", integrity |-> i, digests |-> <<d1, d2>>,
                        next |-> <<1, 1>>]
    /\ remoteConfigured = FALSE
    /\ asset = [integrity |-> EmptyIntegrity, sizeHint |-> 0 - 1]
    /\ cache = EmptyCache
    /\ localCAS = EmptyDisk
    /\ remoteCAS = EmptyRemote
    /\ last = NoCall
    /\ nSteps = 0
    /\ firstLearned = EmptyCache
    /\ lastWrites = {}
    /\ lastPut = [valid |-> FALSE]
    /\ nWrites = 0
    /\ manifestLeafs = <<>>
    /\ staging = <<>>
    /\ streams = <<>>
    /\ handle = NoHandle
    /\ lastRead = NoRead

\* one iteration of the loop of ChecksumCache.PutIntegrity in thread t: a
\* PutSlice, which holds the shard's lock from start to end
PutIntegrityPuts(t) ==
    /\ request.next[t] <= Len(Items(request.integrity))
    /\ \E item \in {Items(request.integrity)[request.next[t]]} :
          cache' = PutIntegrityPutSlice(cache, item.hash, Identifier(item.algorithm),
                                        request.digests[t])
    /\ request' = [request EXCEPT !.next[t] = @ + 1]
    /\ UNCHANGED <<cfgVars, histVars, diskVars, streamVars, localCAS, remoteCAS, last, nSteps,
                   manifestFile, watcher, fsRoot, kernel>>

NextPutRace == \E t \in PutThreads : PutIntegrityPuts(t)

SpecPutRace == InitPutRace /\ [][NextPutRace]_vars

\* both PutIntegrity calls have returned
BothReturned ==
    \A t \in PutThreads : request.next[t] > Len(Items(request.integrity))

\* C39: once both calls have returned, every checksum of the integrity
\* resolves to the same digest, one of the two
C39_RacingPutsAgreeOnOneDigest ==
    BothReturned
        => \E t \in PutThreads :
               \A n \in DOMAIN Items(request.integrity) :
                   LET item == Items(request.integrity)[n]
                       r == GetSlice(cache, item.hash, Identifier(item.algorithm))
                   IN  r.ok /\ r.digest = request.digests[t]

\* the part of C39 that holds: once both calls have returned, every checksum
\* of the integrity resolves to one of the two digests
C39_EveryChecksumHasOneOfTheDigests ==
    BothReturned
        => \A n \in DOMAIN Items(request.integrity) :
               LET item == Items(request.integrity)[n]
                   r == GetSlice(cache, item.hash, Identifier(item.algorithm))
               IN  r.ok /\ \E t \in PutThreads : r.digest = request.digests[t]

====
